---------------------------- MODULE Spec2Model ----------------------------
(***************************************************************************)
(* A model of the LipaChat agent service (app/):                           *)
(*   - the tenacity-wrapped operations generate_response                   *)
(*     (utils/anthropic_helpers.py) and BaseAgent.process_query            *)
(*     (agents/base.py);                                                   *)
(*   - the three LipaChatCrew workflows (orchestration/crew.py) and their  *)
(*     HTTP handlers (routers/crew.py);                                    *)
(*   - the prompt builders BaseAgent._prepare_context and                  *)
(*     create_customer_support_prompt;                                     *)
(*   - requests through FastAPI to the routers (dependency, validation,    *)
(*     handler), with the settings class of config.py;                     *)
(*   - CustomerSupportAgent (agents/customer_support_agent.py): its        *)
(*     construction, handle_support_query and the three tool operations;   *)
(*   - KnowledgeBaseTool._run (tools/knowledge_base.py);                   *)
(*   - LipaChatAPI._make_request (utils/lipachat_api.py);                  *)
(*   - the log_requests middleware (main.py).                              *)
(*                                                                         *)
(* Library semantics the source relies on:                                 *)
(*   tenacity (8.x, the line that co-installs with crewai / anthropic):    *)
(*     after each attempt the retry predicate is called with the           *)
(*     RetryCallState; if it is false the attempt's outcome is returned or *)
(*     re-raised as is; otherwise stop is consulted, and on stop the last  *)
(*     exception is re-raised (reraise=True) or wrapped in RetryError;     *)
(*     otherwise the call sleeps wait(retry_state) and tries again.        *)
(*     wait_exponential is  max(max(0,min), min(multiplier*2^(n-1), max)). *)
(*   crewai Crew with Process.sequential: kickoff runs the task list from  *)
(*     first to last, stops at the first failing task by raising, and (as  *)
(*     the workflow methods index it) yields one output per task in task   *)
(*     list order.                                                         *)
(***************************************************************************)
EXTENDS Integers, Sequences, FiniteSets, TLC

VARIABLES
    \* ---- retry-wrapped call (one caller-level call per behaviour) ----
    op,             \* "none" | "generate_response" | "process_query"
    rpc,            \* "idle" | "attempting" | "sleeping" | "done"
    script,         \* what the remote side answers to attempt 1, 2, ...
    attempt_number, \* tenacity's retry_state.attempt_number
    invocations,    \* remote invocations made so far for this request
    calls,          \* times the wrapped operation was started by callers
    waits,          \* sleeps applied so far, in order
    lastExc,        \* exception raised by the most recent failed attempt
    delivered,      \* what the caller of the wrapped operation receives
    language,       \* language argument of process_query
    task_language,  \* language written into the Task description
    result_language, \* "language" entry of the returned mapping
    language_checks, \* times the language check (line 83) was evaluated
    tasks_built,    \* Task objects constructed (line 88)
    \* ---- crew workflow request ----
    wpc,            \* "idle" | "depends" | "handler" | "kickoff" | "responded"
    workflow,       \* "none" | "feedback" | "marketing" | "issue"
    market_data,    \* "None" | "Empty" | "Data"
    tasks,          \* the task list handed to Crew
    taskState,      \* per task: "pending" | "running" | "done" | "failed"
    outputs,        \* per task output (NoOutput until done)
    startOrder,     \* indices of tasks in the order they were started
    wfResult,       \* what the workflow method gives its caller
    response,       \* the HTTP response
    \* ---- prompt builders ----
    ppc,            \* "idle" | "built"
    builder,        \* "none" | "_prepare_context" | "create_customer_support_prompt"
    conversation_history, \* Optional[List[Dict]] argument
    metadata,       \* Optional[Dict] argument (metadata / customer_info)
    product_info,   \* Optional[Dict] argument of create_customer_support_prompt
    prompt,         \* what the builder gives its caller
    \* ---- HTTP requests through FastAPI (one entry per request) ----
    hpc,            \* "idle" | "depends" | "validate" | "handler" | "responded"
    endpoint,       \* the route the request is for
    body,           \* "none" | "missing" | "empty" | "valid"
    constructions,  \* times the agent / crew constructor was called
    handler_runs,   \* times the endpoint's handler body was entered
    agent_calls,    \* workflow / query calls made on the agent or crew
    remote_calls,   \* calls that went out to the LLM provider
    outcome,        \* which step answered: "none" | "validation" |
                    \*   "initialization" | "processing" | "success"
    http_response,  \* the response sent to the client
    agent_id,       \* identity of the agent / crew object the request holds
    objects,        \* agent / crew objects constructed so far in the process
    settings,       \* the process-wide settings object (config.py line 48)
    \* ---- one CustomerSupportAgent: construction, then one method call ----
    apc,            \* "new" | "base" | "client" | "ready" | "lookup" |
                    \*   "query" | "api" | "returned"
    heap,           \* the list objects created so far, by identity
    self_tools,     \* identity of the list self.tools is bound to (0: unbound)
    crew_agent_tools, \* identity of the list crew_agent.tools is bound to
    method,         \* the method called on the constructed agent
    args,           \* its arguments
    hsq_metadata,   \* metadata handle_support_query hands to process_query
    lookups,        \* get_user_info calls made
    pq_calls,       \* process_query calls made
    api_calls,      \* backing API client calls made by a tool operation
    client_answer,  \* how the backing API client answered the call made
    returned,       \* what the method gives its caller
    \* ---- KnowledgeBaseTool._run ----
    kpc,            \* "idle" | "done"
    knowledge_base, \* self.knowledge_base
    kb_query,       \* the query argument, a sequence of characters
    category,       \* the category argument ("None" when not given)
    kb_output,      \* what _run returns
    \* ---- LipaChatAPI._make_request ----
    mpc,            \* "idle" | "sent" | "done"
    http_method,    \* the method argument
    data,           \* the data argument: "None" | "data"
    requests_sent,  \* HTTP requests sent by this call
    sent,           \* the httpx call made: verb and how data travels
    came_back,      \* what came back: status code and body, or a transport error
    made,           \* what _make_request gives its caller
    \* ---- the log_requests middleware (main.py) ----
    mwpc,           \* "idle" | "call_next" | "done"
    request,        \* method and path of the request
    downstream,     \* what call_next gave: a response, or a raised exception
    client_response, \* the response the middleware returns
    responses,      \* responses the middleware has returned for the request
    mw_raised       \* the middleware let an exception out

pqVars    == <<language, task_language, result_language, language_checks,
               tasks_built>>
retryVars == <<op, rpc, script, attempt_number, invocations, calls, waits,
               lastExc, delivered, pqVars>>
crewVars  == <<wpc, workflow, market_data, tasks, taskState, outputs,
               startOrder, wfResult, response>>
promptVars == <<ppc, builder, conversation_history, metadata, product_info,
                prompt>>
httpVars  == <<hpc, endpoint, body, constructions, handler_runs, agent_calls,
               remote_calls, outcome, http_response, agent_id, objects,
               settings>>
agentVars == <<apc, heap, self_tools, crew_agent_tools, method, args,
               hsq_metadata, lookups, pq_calls, api_calls, client_answer,
               returned>>
kbVars    == <<kpc, knowledge_base, kb_query, category, kb_output>>
apiVars   == <<mpc, http_method, data, requests_sent, sent, came_back, made>>
mwVars    == <<mwpc, request, downstream, client_response, responses,
               mw_raised>>
vars      == <<retryVars, crewVars, promptVars, httpVars, agentVars, kbVars,
               apiVars, mwVars>>

\* what the actions of one group leave alone
exceptRetry  == <<crewVars, promptVars, httpVars, agentVars,
                  kbVars, apiVars, mwVars>>
exceptCrew   == <<retryVars, promptVars, httpVars, agentVars,
                  kbVars, apiVars, mwVars>>
exceptPrompt == <<retryVars, crewVars, httpVars, agentVars,
                  kbVars, apiVars, mwVars>>
exceptHttp   == <<retryVars, crewVars, promptVars, agentVars,
                  kbVars, apiVars, mwVars>>
exceptAgent  == <<retryVars, crewVars, promptVars, httpVars,
                  kbVars, apiVars, mwVars>>
exceptKb     == <<retryVars, crewVars, promptVars, httpVars,
                  agentVars, apiVars, mwVars>>
exceptApi    == <<retryVars, crewVars, promptVars, httpVars,
                  agentVars, kbVars, mwVars>>
exceptMw     == <<retryVars, crewVars, promptVars, httpVars,
                  agentVars, kbVars, apiVars>>

-----------------------------------------------------------------------------
(* Bounds of the model *)

\* number of scripted remote answers enumerated per call
ScriptLen == 4

\* longest conversation history handed to a prompt builder
MaxHistory == 3

\* HTTP requests followed side by side
NumRequests == 2

\* longest knowledge base query, in characters
MaxQueryLen == 2

Max(a, b) == IF a >= b THEN a ELSE b
Min(a, b) == IF a <= b THEN a ELSE b

RECURSIVE Pow(_, _)
Pow(b, e) == IF e <= 0 THEN 1 ELSE b * Pow(b, e - 1)

-----------------------------------------------------------------------------
(* Python objects: classes and isinstance *)

TransientClasses == {"AnthropicError", "ConnectionError", "TimeoutError"}
FailureClasses   == TransientClasses \cup {"ValueError"}
Texts            == {"textA", "textB"}

\* the method resolution order of the classes that occur
Mro(c) ==
    CASE c = "AnthropicError"  -> {"AnthropicError", "Exception", "object"}
      [] c = "ConnectionError" -> {"ConnectionError", "OSError", "Exception", "object"}
      [] c = "TimeoutError"    -> {"TimeoutError", "OSError", "Exception", "object"}
      [] c = "ValueError"      -> {"ValueError", "Exception", "object"}
      [] c = "RetryError"      -> {"RetryError", "Exception", "object"}
      [] c = "AttributeError"  -> {"AttributeError", "Exception", "object"}
      [] c = "RetryCallState"  -> {"RetryCallState", "object"}
      [] OTHER                 -> {"object"}

IsInstance(obj, classes) == (Mro(obj.class) \cap classes) # {}

NoExc == [class |-> "None", attempt |-> 0, cause |-> "None"]
Exc(c, n) == [class |-> c, attempt |-> n, cause |-> "None"]

\* the answers the remote generation endpoint can give to one attempt
RemoteAnswers ==
    [failed : {FALSE}, value : Texts, class : {"None"}]
      \cup [failed : {TRUE}, value : {"None"}, class : FailureClasses]

Scripts == [1..ScriptLen -> RemoteAnswers]

\* tenacity Future of attempt n answered by a
Outcome(a, n) ==
    [failed |-> a.failed, value |-> a.value,
     exception |-> IF a.failed THEN Exc(a.class, n) ELSE NoExc]

RetryCallState(n, o) ==
    [class |-> "RetryCallState", attempt_number |-> n, outcome |-> o]

NoDelivery == [kind |-> "none", value |-> "None", exception |-> NoExc]
Return(v)  == [kind |-> "return", value |-> v, exception |-> NoExc]
Raise(e)   == [kind |-> "raise", value |-> "None", exception |-> e]

-----------------------------------------------------------------------------
(* tenacity configuration of the two wrapped operations *)

\* stop=stop_after_attempt(3)
GenStopAttempts == 3
\* a fourth attempt is allowed
PQStopAttemptsFour == 3 + 1
PQStopAttempts == 3

StopAfterAttempt(op_) == IF op_ = "generate_response" THEN GenStopAttempts
                         ELSE PQStopAttempts

\* a stop condition that never stops
stop_never(max_attempt, retry_state) == FALSE

stop_after_attempt(max_attempt, retry_state) ==
    retry_state.attempt_number >= max_attempt

\* wait=wait_exponential(multiplier=1, min=2, max=10)
WaitMultiplier == 1
\* the lower clamp is lost
WaitMinZero == 2 - 2
WaitMin == 2
WaitMax == 10

wait_exponential(retry_state) ==
    Max(Max(0, WaitMin),
        Min(WaitMultiplier * Pow(2, retry_state.attempt_number - 1), WaitMax))

\* every failed attempt is retried, whatever its class
GenRetryAnyFailure(retry_state) == retry_state.outcome.failed

\* retry=lambda e: isinstance(e, (AnthropicError, ConnectionError, TimeoutError))
\* tenacity hands the lambda the RetryCallState, not the exception.
GenRetry(retry_state) == IsInstance(retry_state, TransientClasses)

\* process_query gives no retry=: tenacity's default retry_if_exception_type()
PQRetry(retry_state) ==
    /\ retry_state.outcome.failed
    /\ IsInstance(retry_state.outcome.exception, {"Exception"})

RetryPredicate(op_, retry_state) ==
    IF op_ = "generate_response" THEN GenRetry(retry_state)
    ELSE PQRetry(retry_state)

\* reraise=True on generate_response; process_query leaves the default False
GenReraise == TRUE
PQReraise  == FALSE
Reraise(op_) == IF op_ = "generate_response" THEN GenReraise ELSE PQReraise

RetryError(fut) == [class |-> "RetryError", attempt |-> fut.exception.attempt,
                    cause |-> fut.exception.class]

\* fut.result(): the attempt's value, or its exception raised again
FutResult(fut) == IF fut.failed THEN Raise(fut.exception) ELSE Return(fut.value)

\* raised when stop says so
RetryExhausted(op_, fut) ==
    IF Reraise(op_) /\ fut.failed THEN Raise(fut.exception)
    ELSE Raise(RetryError(fut))

-----------------------------------------------------------------------------
(* Process-wide configuration (config.py) *)

\* the attributes class Settings declares, with their defaults
Settings ==
    [APP_NAME |-> "LipaChat AI Agents",
     APP_VERSION |-> "1.0.0",
     DEBUG |-> "False",
     HOST |-> "0.0.0.0",
     PORT |-> "8000",
     SECRET_KEY |-> "token",
     CORS_ORIGINS |-> "http://localhost,http://localhost:3000",
     ANTHROPIC_API_KEY |-> "",
     LIPACHAT_API_KEY |-> "",
     ANTHROPIC_MODEL |-> "claude-3-5-sonnet-20240620",
     LIPACHAT_API_BASE_URL |-> "https://api.lipachat.com/v1",
     LOG_LEVEL |-> "INFO"]

\* settings.<name> is readable; reading any other name raises AttributeError
HasSetting(name) == name \in DOMAIN Settings

Languages == {"en", "sw", "xx"}

-----------------------------------------------------------------------------
(* BaseAgent.process_query: the body run by each attempt *)

\* lines 83-85: the language the attempt goes on with, or "AttributeError"
\* when a setting it reads is not there
EffectiveLanguage(lang) ==
    IF ~HasSetting("SUPPORTED_LANGUAGES") THEN "AttributeError"
    ELSE IF lang \in Settings.SUPPORTED_LANGUAGES THEN lang
    ELSE IF ~HasSetting("DEFAULT_LANGUAGE") THEN "AttributeError"
    ELSE Settings.DEFAULT_LANGUAGE

\* does the attempt get as far as crew.kickoff() ?
ReachesKickoff(lang) == EffectiveLanguage(lang) # "AttributeError"

\* the Future of attempt n of process_query, crew.kickoff() answering a
ProcessQueryOutcome(lang, a, n) ==
    IF ~ReachesKickoff(lang)
    THEN [failed |-> TRUE, value |-> "None", exception |-> Exc("AttributeError", n)]
    ELSE Outcome(a, n)

-----------------------------------------------------------------------------
(* The retry-wrapped call *)

\* a caller invokes generate_response(client, system_prompt, user_message)
CallGenerateResponse ==
    /\ rpc = "idle"
    /\ \E s \in Scripts : script' = s
    /\ op' = "generate_response"
    /\ calls' = calls + 1
    /\ rpc' = "attempting"
    /\ UNCHANGED <<attempt_number, invocations, waits, lastExc, delivered>>
    /\ UNCHANGED pqVars
    /\ UNCHANGED exceptRetry

\* handle_support_query awaits self.process_query(...) once
CallProcessQuery ==
    /\ rpc = "idle"
    /\ \E s \in Scripts : script' = s
    /\ \E l \in Languages : language' = l
    /\ op' = "process_query"
    /\ calls' = calls + 1
    /\ rpc' = "attempting"
    /\ UNCHANGED <<attempt_number, invocations, waits, lastExc, delivered>>
    /\ UNCHANGED <<task_language, result_language, language_checks,
                   tasks_built>>
    /\ UNCHANGED exceptRetry

\* one attempt of the wrapped function followed by tenacity's decision
DoAttempt ==
    /\ rpc = "attempting"
    /\ attempt_number < ScriptLen
    /\ LET n   == attempt_number + 1
           remote == op = "generate_response" \/ ReachesKickoff(language)
           fut == IF op = "process_query"
                  THEN ProcessQueryOutcome(language, script[n], n)
                  ELSE Outcome(script[n], n)
           rs  == RetryCallState(n, fut)
       IN  /\ attempt_number' = n
           /\ invocations' = IF remote THEN invocations + 1 ELSE invocations
           /\ language_checks' = IF op = "process_query"
                                 THEN language_checks + 1
                                 ELSE language_checks
           /\ tasks_built' = IF op = "process_query" /\ remote
                             THEN tasks_built + 1
                             ELSE tasks_built
           /\ task_language' = IF op = "process_query" /\ remote
                               THEN EffectiveLanguage(language)
                               ELSE task_language
           /\ result_language' = IF op = "process_query" /\ ~fut.failed
                                 THEN EffectiveLanguage(language)
                                 ELSE result_language
           /\ lastExc' = IF fut.failed THEN fut.exception ELSE lastExc
           /\ IF ~RetryPredicate(op, rs)
              THEN /\ delivered' = FutResult(fut)
                   /\ rpc' = "done"
                   /\ waits' = waits
              ELSE IF stop_after_attempt(StopAfterAttempt(op), rs)
              THEN /\ delivered' = RetryExhausted(op, fut)
                   /\ rpc' = "done"
                   /\ waits' = waits
              ELSE /\ waits' = Append(waits, wait_exponential(rs))
                   /\ rpc' = "sleeping"
                   /\ delivered' = delivered
    /\ UNCHANGED <<op, script, calls, language>>
    /\ UNCHANGED exceptRetry

\* the sleep between two attempts is over
DoSleep ==
    /\ rpc = "sleeping"
    /\ rpc' = "attempting"
    /\ UNCHANGED <<op, script, attempt_number, invocations, calls, waits,
                   lastExc, delivered>>
    /\ UNCHANGED pqVars
    /\ UNCHANGED exceptRetry

InitRetry ==
    /\ op = "none"
    /\ rpc = "idle"
    /\ script = [i \in 1..ScriptLen |-> [failed |-> FALSE, value |-> "textA", class |-> "None"]]
    /\ attempt_number = 0
    /\ invocations = 0
    /\ calls = 0
    /\ waits = <<>>
    /\ lastExc = NoExc
    /\ delivered = NoDelivery
    /\ language = "None"
    /\ task_language = "None"
    /\ result_language = "None"
    /\ language_checks = 0
    /\ tasks_built = 0

NextRetry ==
    \/ CallGenerateResponse
    \/ CallProcessQuery
    \/ DoAttempt
    \/ DoSleep

-----------------------------------------------------------------------------
(* LipaChatCrew: task templates of the three workflows *)

OutVals == {"x", "y"}
NoOutput == [task |-> "None", v |-> "None"]
TaskOutput(name, val) == [task |-> name, v |-> val]

\* context entries: a literal value, or the placeholder
\* "Will be filled by <ref>" naming the producing task
Literal(k, val) == [key |-> k, kind |-> "literal", ref |-> "None", value |-> val]
WillBeFilledBy(k, t) == [key |-> k, kind |-> "forward", ref |-> t, value |-> "None"]

Task(n, a, ctx) == [name |-> n, agent |-> a, context |-> ctx]

\* Python truthiness of the optional market_data mapping
Truthy(md) == md = "Data"

FeedbackTasks ==
    << Task("analyze_feedback_task", "crew_customer_support",
            {Literal("feedback_data", "feedback_data")}),
       Task("campaign_analysis_task", "crew_marketing",
            {Literal("campaign_id", "campaign_id")}),
       Task("create_response_plan_task", "crew_marketing",
            {WillBeFilledBy("feedback_analysis", "analyze_feedback_task"),
             WillBeFilledBy("campaign_analysis", "campaign_analysis_task")}) >>

\* the research task is created whether or not market data came with the request
MarketingHeadAlways(md) ==
    << Task("market_research_task", "crew_marketing",
            {Literal("campaign_brief", "campaign_brief"),
             Literal("target_audience", "target_audience")}) >>

MarketingHead(md) ==
    IF ~Truthy(md)
    THEN << Task("market_research_task", "crew_marketing",
                 {Literal("campaign_brief", "campaign_brief"),
                  Literal("target_audience", "target_audience")}) >>
    ELSE << >>

ContextForPlanning(md) ==
    IF ~Truthy(md)
    THEN {WillBeFilledBy("market_research", "market_research_task")}
    ELSE {Literal("market_research", md)}

MarketingTail(md) ==
    << Task("campaign_planning_task", "crew_marketing",
            ContextForPlanning(md) \cup
              {Literal("campaign_brief", "campaign_brief"),
               Literal("target_audience", "target_audience")}),
       Task("content_creation_task", "crew_marketing",
            {WillBeFilledBy("campaign_plan", "campaign_planning_task"),
             Literal("target_audience", "target_audience")}),
       Task("support_preparation_task", "crew_customer_support",
            {WillBeFilledBy("campaign_plan", "campaign_planning_task"),
             Literal("target_audience", "target_audience")}) >>

\* the planning chain is put in front of the research task
ExtendInFront(head, tail) == tail \o head

\* tasks.extend([campaign_planning_task, content_creation_task, ...])
Extend(head, tail) == head \o tail

MarketingTasks(md) == Extend(MarketingHead(md), MarketingTail(md))

IssueTasks ==
    << Task("troubleshoot_task", "crew_customer_support",
            {Literal("customer_id", "customer_id"),
             Literal("issue_description", "issue_description"),
             Literal("support_history", "support_history")}),
       Task("customer_retention_task", "crew_marketing",
            {Literal("customer_id", "customer_id"),
             WillBeFilledBy("issue_resolution", "troubleshoot_task")}),
       Task("personalized_content_task", "crew_marketing",
            {Literal("customer_id", "customer_id"),
             WillBeFilledBy("issue_resolution", "troubleshoot_task"),
             WillBeFilledBy("retention_plan", "customer_retention_task")}) >>

WorkflowTasks(wf, md) ==
    CASE wf = "feedback"  -> FeedbackTasks
      [] wf = "marketing" -> MarketingTasks(md)
      [] wf = "issue"     -> IssueTasks
      [] OTHER            -> << >>

\* the first two results are bound to each other's key
FeedbackResultSwapped(result) ==
    [k \in {"feedback_analysis", "campaign_analysis", "response_plan"} |->
        CASE k = "feedback_analysis" -> result[2]
          [] k = "campaign_analysis" -> result[1]
          [] OTHER                   -> result[3]]

\* the mappings the workflow methods build from kickoff's result
FeedbackResult(result) ==
    [k \in {"feedback_analysis", "campaign_analysis", "response_plan"} |->
        CASE k = "feedback_analysis" -> result[1]
          [] k = "campaign_analysis" -> result[2]
          [] OTHER                   -> result[3]]

\* the supplied-data branch keeps the indices of the research branch
MarketingResultShifted(md, result) ==
    IF ~Truthy(md)
    THEN [k \in {"market_research", "campaign_plan", "campaign_content",
                 "support_materials"} |->
            CASE k = "market_research"  -> result[1]
              [] k = "campaign_plan"    -> result[2]
              [] k = "campaign_content" -> result[3]
              [] OTHER                  -> result[4]]
    ELSE [k \in {"campaign_plan", "campaign_content", "support_materials"} |->
            CASE k = "campaign_plan"    -> result[2]
              [] k = "campaign_content" -> result[3]
              [] OTHER                  -> result[1]]

MarketingResult(md, result) ==
    IF ~Truthy(md)
    THEN [k \in {"market_research", "campaign_plan", "campaign_content",
                 "support_materials"} |->
            CASE k = "market_research"  -> result[1]
              [] k = "campaign_plan"    -> result[2]
              [] k = "campaign_content" -> result[3]
              [] OTHER                  -> result[4]]
    ELSE [k \in {"campaign_plan", "campaign_content", "support_materials"} |->
            CASE k = "campaign_plan"    -> result[1]
              [] k = "campaign_content" -> result[2]
              [] OTHER                  -> result[3]]

IssueResult(result) ==
    [k \in {"issue_resolution", "retention_plan", "follow_up_content"} |->
        CASE k = "issue_resolution" -> result[1]
          [] k = "retention_plan"   -> result[2]
          [] OTHER                  -> result[3]]

WorkflowResult(wf, md, result) ==
    CASE wf = "feedback"  -> FeedbackResult(result)
      [] wf = "marketing" -> MarketingResult(md, result)
      [] OTHER            -> IssueResult(result)

EmptyMapping == [k \in {} |-> NoOutput]

NoWfResult == [kind |-> "none", mapping |-> EmptyMapping, exception |-> NoExc]
WfReturn(m) == [kind |-> "return", mapping |-> m, exception |-> NoExc]
WfRaise(e)  == [kind |-> "raise", mapping |-> EmptyMapping, exception |-> e]

\* the handler swallows the error and returns what has been produced
WorkflowExceptReturnsPartial(wf, md, partial, e) ==
    WfReturn([k \in {"partial"} |-> partial[1]])

\* except Exception as e: logger.error(...); raise
WorkflowExcept(wf, md, partial, e) == WfRaise(e)

\* the crew is given another process than the sequential one
CrewProcessHierarchical == "hierarchical"

\* process=Process.sequential
CrewProcess == "sequential"

\* may kickoff start task i now?
CanStart(i) ==
    IF CrewProcess = "sequential"
    THEN /\ \A j \in 1..(i - 1) : taskState[j] = "done"
         /\ \A j \in DOMAIN taskState : taskState[j] # "running"
    ELSE \A j \in DOMAIN taskState : taskState[j] # "failed"

NoResponse == [status_code |-> 0, status |-> "None", result |-> EmptyMapping,
               detail |-> "None", error |-> NoExc]

\* return {"status": "success", "result": result}
SuccessResponse(m) ==
    [status_code |-> 200, status |-> "success", result |-> m,
     detail |-> "None", error |-> NoExc]

ProcessingDetail(wf) ==
    CASE wf = "feedback"  -> "Failed to process customer feedback campaign: "
      [] wf = "marketing" -> "Failed to create marketing campaign: "
      [] OTHER            -> "Failed to handle customer issue: "

\* raise HTTPException(500, detail=f"Failed to ...: {str(e)}")
ProcessingFailure(wf, e) ==
    [status_code |-> 500, status |-> "None", result |-> EmptyMapping,
     detail |-> ProcessingDetail(wf), error |-> e]

\* get_lipachat_crew: raise HTTPException(500, "Failed to initialize agent crew")
InitFailure ==
    [status_code |-> 500, status |-> "None", result |-> EmptyMapping,
     detail |-> "Failed to initialize agent crew", error |-> NoExc]

\* the handler's try / except around the workflow call
HandlerResponse(wf, r) ==
    IF r.kind = "return" THEN SuccessResponse(r.mapping)
    ELSE ProcessingFailure(wf, r.exception)

-----------------------------------------------------------------------------
(* One HTTP request to a /api/crew endpoint *)

Workflows == {"feedback", "marketing", "issue"}
MarketData == {"None", "Empty", "Data"}

\* POST /api/crew/<workflow> with a valid body
ReceiveRequest ==
    /\ wpc = "idle"
    /\ \E wf \in Workflows, md \in MarketData :
         /\ (wf # "marketing") => md = "None"
         /\ workflow' = wf
         /\ market_data' = md
    /\ wpc' = "depends"
    /\ UNCHANGED <<tasks, taskState, outputs, startOrder, wfResult, response>>
    /\ UNCHANGED exceptCrew

\* Depends(get_lipachat_crew): LipaChatCrew() is constructed.  Construction
\* calls get_tools() and reads llm on both agents (crew.py 46, 55); it
\* succeeds for agents that provide them and raises otherwise.
GetLipachatCrewOk ==
    /\ wpc = "depends"
    /\ wpc' = "handler"
    /\ UNCHANGED <<workflow, market_data, tasks, taskState, outputs,
                   startOrder, wfResult, response>>
    /\ UNCHANGED exceptCrew

\* Depends(get_lipachat_crew): LipaChatCrew() raises
GetLipachatCrewFails ==
    /\ wpc = "depends"
    /\ response' = InitFailure
    /\ wpc' = "responded"
    /\ UNCHANGED <<workflow, market_data, tasks, taskState, outputs,
                   startOrder, wfResult>>
    /\ UNCHANGED exceptCrew

\* the handler calls the workflow method, which builds the tasks and the
\* Crew and calls crew.kickoff()
Kickoff ==
    /\ wpc = "handler"
    /\ tasks' = WorkflowTasks(workflow, market_data)
    /\ taskState' = [i \in 1..Len(tasks') |-> "pending"]
    /\ outputs' = [i \in 1..Len(tasks') |-> NoOutput]
    /\ wpc' = "kickoff"
    /\ UNCHANGED <<workflow, market_data, startOrder, wfResult, response>>
    /\ UNCHANGED exceptCrew

\* the runtime starts task i
StartTask ==
    /\ wpc = "kickoff"
    /\ \E i \in DOMAIN tasks :
         /\ taskState[i] = "pending"
         /\ CanStart(i)
         /\ taskState' = [taskState EXCEPT ![i] = "running"]
         /\ startOrder' = Append(startOrder, i)
    /\ UNCHANGED <<wpc, workflow, market_data, tasks, outputs, wfResult,
                   response>>
    /\ UNCHANGED exceptCrew

\* task i completes; after the last one kickoff returns, the method builds
\* its mapping and the handler answers
FinishTaskOk ==
    /\ wpc = "kickoff"
    /\ \E i \in DOMAIN tasks, val \in OutVals :
         /\ taskState[i] = "running"
         /\ taskState' = [taskState EXCEPT ![i] = "done"]
         /\ outputs' = [outputs EXCEPT ![i] = TaskOutput(tasks[i].name, val)]
         /\ IF \A j \in DOMAIN tasks : taskState'[j] = "done"
            THEN /\ wfResult' = WfReturn(WorkflowResult(workflow, market_data, outputs'))
                 /\ response' = HandlerResponse(workflow, wfResult')
                 /\ wpc' = "responded"
            ELSE UNCHANGED <<wfResult, response, wpc>>
    /\ UNCHANGED <<workflow, market_data, tasks, startOrder>>
    /\ UNCHANGED exceptCrew

\* task i fails: kickoff raises, the method logs and re-raises, the handler
\* answers with the processing failure
FinishTaskFails ==
    /\ wpc = "kickoff"
    /\ \E i \in DOMAIN tasks :
         /\ taskState[i] = "running"
         /\ taskState' = [taskState EXCEPT ![i] = "failed"]
         /\ wfResult' = WorkflowExcept(workflow, market_data, outputs,
                                       Exc("Exception", i))
         /\ response' = HandlerResponse(workflow, wfResult')
         /\ wpc' = "responded"
    /\ UNCHANGED <<workflow, market_data, tasks, outputs, startOrder>>
    /\ UNCHANGED exceptCrew

InitCrew ==
    /\ wpc = "idle"
    /\ workflow = "none"
    /\ market_data = "None"
    /\ tasks = << >>
    /\ taskState = << >>
    /\ outputs = << >>
    /\ startOrder = << >>
    /\ wfResult = NoWfResult
    /\ response = NoResponse

NextCrew ==
    \/ ReceiveRequest
    \/ GetLipachatCrewOk
    \/ GetLipachatCrewFails
    \/ Kickoff
    \/ StartTask
    \/ FinishTaskOk
    \/ FinishTaskFails

-----------------------------------------------------------------------------
(* Prompt builders: BaseAgent._prepare_context (agents/base.py) and        *)
(* create_customer_support_prompt (utils/anthropic_helpers.py).            *)
(*                                                                         *)
(* A Python str is modelled as the sequence of its lines; an Optional      *)
(* value as a record saying whether it is there; a dict as the sequence of *)
(* its (key, value) items in insertion order; a history turn as a function *)
(* from the keys it has to their texts.                                    *)

None == [present |-> FALSE, items |-> << >>]
Some(items) == [present |-> TRUE, items |-> items]

\* Python truth value of an Optional list or dict
Nonempty(x) == x.present /\ x.items # << >>

\* the text a turn holds under key k
TurnText(k) ==
    CASE k = "user"      -> "hello"
      [] k = "assistant" -> "welcome"
      [] k = "role"      -> "customer"
      [] k = "content"   -> "thanks"

TurnKeySets == {{}, {"user"}, {"assistant"}, {"user", "assistant"},
                {"role", "content"}, {"content"}}

Turns == {[k \in d |-> TurnText(k)] : d \in TurnKeySets}

RECURSIVE SeqsUpTo(_, _)
SeqsUpTo(S, n) ==
    IF n = 0 THEN {<< >>}
    ELSE LET shorter == SeqsUpTo(S, n - 1)
         IN  shorter \cup {Append(q, x) : q \in shorter, x \in S}

Histories == {None} \cup {Some(h) : h \in SeqsUpTo(Turns, MaxHistory)}

Mappings == {None, Some(<< >>), Some(<< <<"plan", "pro">> >>),
             Some(<< <<"plan", "pro">>, <<"region", "ke">> >>)}

ProductInfos == {None, Some(<< <<"name", "wallet">> >>)}

Line(kind, a, b) == [kind |-> kind, a |-> a, b |-> b]

\* a line of fixed text
Text(t) == Line("text", t, "")
\* the empty line a lone "\n" leaves
Blank == Line("blank", "", "")

RECURSIVE Concat(_)
Concat(seqs) ==
    IF seqs = << >> THEN << >> ELSE Head(seqs) \o Concat(Tail(seqs))

\* seq[-n:]
LastN(seq, n) ==
    LET first == IF n = 0 THEN 1 ELSE Max(Len(seq) - n, 0) + 1
    IN  SubSeq(seq, first, Len(seq))

PReturn(lines) == [kind |-> "return", lines |-> lines, exception |-> "None"]
PRaise(c) == [kind |-> "raise", lines |-> << >>, exception |-> c]
NoPrompt == [kind |-> "none", lines |-> << >>, exception |-> "None"]

\* lines 123-127: the lines one turn adds
TurnLines(turn) ==
    (IF "user" \in DOMAIN turn
     THEN <<Line("turn", "User", turn["user"])>> ELSE << >>)
    \o
    (IF "assistant" \in DOMAIN turn
     THEN <<Line("turn", "Assistant", turn["assistant"])>> ELSE << >>)

\* lines 122-128
HistorySection(trimmed_history) ==
    <<Text("Conversation history:")>>
    \o Concat([i \in 1..Len(trimmed_history) |-> TurnLines(trimmed_history[i])])
    \o <<Blank>>

\* lines 132-134
MetadataSection(md) ==
    <<Text("Additional context:")>>
    \o [i \in 1..Len(md) |-> Line("kv", md[i][1], md[i][2])]

\* BaseAgent._prepare_context
prepare_context(history, md) ==
    IF Nonempty(history) /\ ~HasSetting("MAX_CONVERSATION_HISTORY")
    THEN PRaise("AttributeError")
    ELSE PReturn(
           (IF Nonempty(history)
            THEN HistorySection(LastN(history.items,
                                      Settings.MAX_CONVERSATION_HISTORY))
            ELSE << >>)
           \o
           (IF Nonempty(md) THEN MetadataSection(md.items) ELSE << >>))

\* "Customer information:" / "Product information:" parts, lines 94-96, 108-110
InfoPart(title, info) ==
    <<Text(title)>> \o [i \in 1..Len(info) |-> Line("item", info[i][1], info[i][2])]

\* message.get(key, default)
Get(message, key, default) ==
    IF key \in DOMAIN message THEN message[key] ELSE default

\* lines 100-104
PreviousConversation(history) ==
    <<Text("Previous conversation:")>>
    \o [i \in 1..Len(history) |->
          Line("turn", Get(history[i], "role", "Unknown"),
                       Get(history[i], "content", ""))]

\* "\n\n".join(prompt_parts): the separator between two parts
Sep == Line("sep", "", "")

RECURSIVE Join(_)
Join(parts) ==
    IF parts = << >> THEN << >>
    ELSE IF Len(parts) = 1 THEN parts[1]
    ELSE parts[1] \o <<Sep>> \o Join(Tail(parts))

RoleInstruction ==
    Text("You are LipaChat's expert customer support AI assistant.")

\* create_customer_support_prompt with the history placed ahead of the
\* customer information
create_customer_support_prompt_history_first(q, customer_info, history, product) ==
    PReturn(Join(
        << <<RoleInstruction>>, <<Line("query", "Customer query: ", q)>> >>
        \o (IF Nonempty(history)
            THEN <<PreviousConversation(history.items)>> ELSE << >>)
        \o (IF Nonempty(customer_info)
            THEN <<InfoPart("Customer information:", customer_info.items)>>
            ELSE << >>)
        \o (IF Nonempty(product)
            THEN <<InfoPart("Product information:", product.items)>>
            ELSE << >>)))

create_customer_support_prompt(q, customer_info, history, product) ==
    PReturn(Join(
        << <<RoleInstruction>>, <<Line("query", "Customer query: ", q)>> >>
        \o (IF Nonempty(customer_info)
            THEN <<InfoPart("Customer information:", customer_info.items)>>
            ELSE << >>)
        \o (IF Nonempty(history)
            THEN <<PreviousConversation(history.items)>> ELSE << >>)
        \o (IF Nonempty(product)
            THEN <<InfoPart("Product information:", product.items)>>
            ELSE << >>)))

Query == "How do I reset my password?"

\* a caller builds the context of a Task (base.py line 91)
CallPrepareContext ==
    /\ ppc = "idle"
    /\ \E h \in Histories, md \in Mappings :
         /\ conversation_history' = h
         /\ metadata' = md
         /\ prompt' = prepare_context(h, md)
    /\ builder' = "_prepare_context"
    /\ ppc' = "built"
    /\ UNCHANGED product_info
    /\ UNCHANGED exceptPrompt

\* a caller builds a customer support prompt
CallCreateCustomerSupportPrompt ==
    /\ ppc = "idle"
    /\ \E h \in Histories, ci \in Mappings, pi \in ProductInfos :
         /\ conversation_history' = h
         /\ metadata' = ci
         /\ product_info' = pi
         /\ prompt' = create_customer_support_prompt(Query, ci, h, pi)
    /\ builder' = "create_customer_support_prompt"
    /\ ppc' = "built"
    /\ UNCHANGED exceptPrompt

InitPrompt ==
    /\ ppc = "idle"
    /\ builder = "none"
    /\ conversation_history = None
    /\ metadata = None
    /\ product_info = None
    /\ prompt = NoPrompt

NextPrompt ==
    \/ CallPrepareContext
    \/ CallCreateCustomerSupportPrompt

-----------------------------------------------------------------------------
(* HTTP requests: FastAPI in front of the routers (main.py, routers/).     *)
(*                                                                         *)
(* FastAPI serves a POST route in this order: it reads the JSON body, then *)
(* solve_dependencies calls every Depends(...) factory, then validates the *)
(* body against the route's pydantic model; if validation collected errors *)
(* it raises RequestValidationError, which FastAPI's own handler turns     *)
(* into status 422 with a list under "detail"; otherwise the handler runs. *)
(* An HTTPException raised by a factory or a handler becomes a response    *)
(* with its status code and {"detail": detail}.                            *)
(*                                                                         *)
(* The constructors (CustomerSupportAgent(), MarketingAgent(),             *)
(* LipaChatCrew()) are taken as calls that either return or raise.         *)

Requests == 1..NumRequests

Endpoints == {"/api/customer-support/query",
              "/api/crew/customer-feedback-campaign",
              "/api/marketing/generate-content"}

\* the body lacks a required field | holds "" in its required text field |
\* satisfies the route's model with non-empty text
Bodies == {"missing", "empty", "valid"}

\* pydantic: a field declared `name: str` must be there and takes any str
SatisfiesModel(b) == b \in {"empty", "valid"}

\* str(e) of what the callee of a handler can raise
InternalErrors == {"kickoff failed", "RetryError[<Future raised ValueError>]"}

NoHttpResponse ==
    [status_code |-> 0, status |-> "None", detail_type |-> "none",
     detail |-> "None", error |-> "None"]

\* return {"status": "success", ...}
HttpSuccess ==
    [status_code |-> 200, status |-> "success", detail_type |-> "none",
     detail |-> "None", error |-> "None"]

\* HTTPException(status_code, detail=<str>), the text being detail followed
\* by error
HTTPException(status_code, detail, error) ==
    [status_code |-> status_code, status |-> "None", detail_type |-> "str",
     detail |-> detail, error |-> error]

\* FastAPI's answer to RequestValidationError, as a plain server error
RequestValidationErrorAs500 ==
    [status_code |-> 500, status |-> "None", detail_type |-> "str",
     detail |-> "field required", error |-> "None"]

\* FastAPI's answer to RequestValidationError
RequestValidationError ==
    [status_code |-> 422, status |-> "None", detail_type |-> "list",
     detail |-> "field required", error |-> "None"]

InitDetail(ep) ==
    CASE ep = "/api/customer-support/query" ->
           "Failed to initialize customer support agent"
      [] ep = "/api/crew/customer-feedback-campaign" ->
           "Failed to initialize agent crew"
      [] ep = "/api/marketing/generate-content" ->
           "Failed to initialize marketing agent"

HandlerDetail(ep) ==
    CASE ep = "/api/customer-support/query" ->
           "Failed to process customer query: "
      [] ep = "/api/crew/customer-feedback-campaign" ->
           ProcessingDetail("feedback")
      [] ep = "/api/marketing/generate-content" ->
           "Failed to generate content: "

\* the factory's except branch, answering as the handler's except branch would
InitializationFailureAsProcessing(ep) == HTTPException(500, HandlerDetail(ep), "None")

\* the except branch of get_customer_support_agent / get_lipachat_crew /
\* get_marketing_agent
InitializationFailure(ep) == HTTPException(500, InitDetail(ep), "None")

\* the except branch of the handler: detail=f"Failed to ...: {str(e)}"
HandlerFailure(ep, e) == HTTPException(500, HandlerDetail(ep), e)

\* public methods of CustomerSupportAgent and BaseAgent
CustomerSupportAgentMethods ==
    {"register_tools", "handle_support_query", "process_query"}

\* the method the handler of ep calls on its agent / crew
Callee(ep) ==
    CASE ep = "/api/customer-support/query" -> "handle_query"
      [] ep = "/api/crew/customer-feedback-campaign" ->
           "handle_customer_feedback_campaign"
      [] ep = "/api/marketing/generate-content" -> "generate_content"

\* getattr(agent, Callee(ep)) finds a method
HasCallee(ep) ==
    ep = "/api/customer-support/query" =>
        Callee(ep) \in CustomerSupportAgentMethods

AttributeErrorText ==
    "'CustomerSupportAgent' object has no attribute 'handle_query'"

\* what the handler's call can raise
CalleeErrors(ep) ==
    IF HasCallee(ep) THEN InternalErrors ELSE {AttributeErrorText}

\* the factory hands every request the one object built first
NewObjectShared(n) == 1

\* `return LipaChatCrew()` / `return CustomerSupportAgent()`: every call of
\* the factory constructs an object of its own; n objects exist already
NewObject(n) == n + 1

\* a client sends POST ep with a JSON body
HttpReceive(r) ==
    /\ hpc[r] = "idle"
    /\ \E ep \in Endpoints, b \in Bodies :
         /\ endpoint' = [endpoint EXCEPT ![r] = ep]
         /\ body' = [body EXCEPT ![r] = b]
    /\ hpc' = [hpc EXCEPT ![r] = "depends"]
    /\ UNCHANGED <<constructions, handler_runs, agent_calls, remote_calls,
                   outcome, http_response, agent_id, objects, settings>>
    /\ UNCHANGED exceptHttp

\* solve_dependencies: the factory returns the agent / crew
DependsOk(r) ==
    /\ hpc[r] = "depends"
    /\ constructions' = [constructions EXCEPT ![r] = @ + 1]
    /\ objects' = NewObject(objects)
    /\ agent_id' = [agent_id EXCEPT ![r] = NewObject(objects)]
    /\ hpc' = [hpc EXCEPT ![r] = "validate"]
    /\ UNCHANGED <<endpoint, body, handler_runs, agent_calls, remote_calls,
                   outcome, http_response, settings>>
    /\ UNCHANGED exceptHttp

\* solve_dependencies: the constructor raises, the factory raises
\* HTTPException(500)
DependsFails(r) ==
    /\ hpc[r] = "depends"
    /\ constructions' = [constructions EXCEPT ![r] = @ + 1]
    /\ http_response' = [http_response EXCEPT
                           ![r] = InitializationFailure(endpoint[r])]
    /\ outcome' = [outcome EXCEPT ![r] = "initialization"]
    /\ hpc' = [hpc EXCEPT ![r] = "responded"]
    /\ UNCHANGED <<endpoint, body, handler_runs, agent_calls, remote_calls,
                   agent_id, objects, settings>>
    /\ UNCHANGED exceptHttp

\* the body is checked against the route's model
ValidateBody(r) ==
    /\ hpc[r] = "validate"
    /\ IF SatisfiesModel(body[r])
       THEN /\ hpc' = [hpc EXCEPT ![r] = "handler"]
            /\ UNCHANGED <<outcome, http_response>>
       ELSE /\ http_response' = [http_response EXCEPT
                                   ![r] = RequestValidationError]
            /\ outcome' = [outcome EXCEPT ![r] = "validation"]
            /\ hpc' = [hpc EXCEPT ![r] = "responded"]
    /\ UNCHANGED <<endpoint, body, constructions, handler_runs, agent_calls,
                   remote_calls, agent_id, objects, settings>>
    /\ UNCHANGED exceptHttp

\* the handler body: the call on the agent / crew returns
HandlerOk(r) ==
    /\ hpc[r] = "handler"
    /\ HasCallee(endpoint[r])
    /\ handler_runs' = [handler_runs EXCEPT ![r] = @ + 1]
    /\ agent_calls' = [agent_calls EXCEPT ![r] = @ + 1]
    /\ remote_calls' = [remote_calls EXCEPT ![r] = @ + 1]
    /\ http_response' = [http_response EXCEPT ![r] = HttpSuccess]
    /\ outcome' = [outcome EXCEPT ![r] = "success"]
    /\ hpc' = [hpc EXCEPT ![r] = "responded"]
    /\ UNCHANGED <<endpoint, body, constructions, agent_id, objects, settings>>
    /\ UNCHANGED exceptHttp

\* the handler body: the call on the agent / crew raises e
HandlerFails(r) ==
    /\ hpc[r] = "handler"
    /\ handler_runs' = [handler_runs EXCEPT ![r] = @ + 1]
    /\ IF HasCallee(endpoint[r])
       THEN /\ agent_calls' = [agent_calls EXCEPT ![r] = @ + 1]
            /\ remote_calls' = [remote_calls EXCEPT ![r] = @ + 1]
       ELSE UNCHANGED <<agent_calls, remote_calls>>
    /\ \E e \in CalleeErrors(endpoint[r]) :
         http_response' = [http_response EXCEPT
                             ![r] = HandlerFailure(endpoint[r], e)]
    /\ outcome' = [outcome EXCEPT ![r] = "processing"]
    /\ hpc' = [hpc EXCEPT ![r] = "responded"]
    /\ UNCHANGED <<endpoint, body, constructions, agent_id, objects, settings>>
    /\ UNCHANGED exceptHttp

InitHttp ==
    /\ hpc = [r \in Requests |-> "idle"]
    /\ endpoint = [r \in Requests |-> "none"]
    /\ body = [r \in Requests |-> "none"]
    /\ constructions = [r \in Requests |-> 0]
    /\ handler_runs = [r \in Requests |-> 0]
    /\ agent_calls = [r \in Requests |-> 0]
    /\ remote_calls = [r \in Requests |-> 0]
    /\ outcome = [r \in Requests |-> "none"]
    /\ http_response = [r \in Requests |-> NoHttpResponse]
    /\ agent_id = [r \in Requests |-> 0]
    /\ objects = 0
    /\ settings = Settings

NextHttp ==
    \E r \in Requests :
        \/ HttpReceive(r)
        \/ DependsOk(r)
        \/ DependsFails(r)
        \/ ValidateBody(r)
        \/ HandlerOk(r)
        \/ HandlerFails(r)

-----------------------------------------------------------------------------
(* CustomerSupportAgent (agents/customer_support_agent.py) on top of       *)
(* BaseAgent.__init__ (agents/base.py): construction, then one call of     *)
(* handle_support_query or of a support tool operation.                    *)
(*                                                                         *)
(* Python lists are objects: a name or attribute is bound to a list's      *)
(* identity, and assigning a new list to a name rebinds the name without   *)
(* touching the list it was bound to.  The backing API client              *)
(* (self.lipachat_client) is taken as calls that return a mapping or       *)
(* raise; process_query as a call that returns its mapping or raises.      *)

RegisteredTools ==
    <<"knowledge_base", "create_support_ticket", "lookup_account",
      "manage_subscription">>

\* the list identity i is bound to
Deref(i) == IF i = 0 THEN << >> ELSE heap[i]

\* BaseAgent.__init__ lines 25-41: self.tools = [] and
\* CrewAgent(..., tools=self.tools, ...); the Agent model keeps the list it
\* is given or a copy of it
BaseAgentInit ==
    /\ apc = "new"
    /\ \E keeps \in BOOLEAN :
         IF keeps
         THEN /\ heap' = <<(<< >>)>>
              /\ self_tools' = 1
              /\ crew_agent_tools' = 1
         ELSE /\ heap' = <<(<< >>), (<< >>)>>
              /\ self_tools' = 1
              /\ crew_agent_tools' = 2
    /\ apc' = "base"
    /\ UNCHANGED <<method, args, hsq_metadata, lookups, pq_calls, api_calls,
                   client_answer, returned>>
    /\ UNCHANGED exceptAgent

\* CustomerSupportAgent.__init__ line 21
CreateLipachatClient ==
    /\ apc = "base"
    /\ apc' = "client"
    /\ UNCHANGED <<heap, self_tools, crew_agent_tools, method, args,
                   hsq_metadata, lookups, pq_calls, api_calls, client_answer,
                   returned>>
    /\ UNCHANGED exceptAgent

\* register_tools, lines 39-71: self.tools = [ ...four tools... ]
register_tools ==
    /\ apc = "client"
    /\ heap' = Append(heap, RegisteredTools)
    /\ self_tools' = Len(heap) + 1
    /\ apc' = "ready"
    /\ UNCHANGED <<crew_agent_tools, method, args, hsq_metadata, lookups,
                   pq_calls, api_calls, client_answer,
                   returned>>
    /\ UNCHANGED exceptAgent

UserIds == {"None", "", "user-1"}
Actions == {"check", "upgrade", "downgrade", "cancel", "pause"}
Plans == {"None", "", "pro"}

\* Python truth value of an Optional[str]
TruthyStr(x) == x \notin {"None", ""}

NoAnswer == [kind |-> "none", info |-> EmptyMapping, complete |-> FALSE]
\* the client call returned mapping info; complete: it has every key read
Answered(info, complete) ==
    [kind |-> "returned", info |-> info, complete |-> complete]
ClientRaised == [kind |-> "raised", info |-> EmptyMapping, complete |-> FALSE]

NoArgs == [user_id |-> "None", action |-> "None", plan |-> "None"]

NoResult == [kind |-> "none", status |-> "None", value |-> "None"]
Returned(status, value) == [kind |-> "return", status |-> status, value |-> value]
Raised(e) == [kind |-> "raise", status |-> "None", value |-> e]

\* what get_user_info can return: the keys the mapping has
UserInfos ==
    {[k \in d |-> IF k = "subscription_type" THEN "pro" ELSE 30] :
        d \in SUBSET {"subscription_type", "account_age_days"}}

\* lines 208-212 with "" as the default subscription type
UserMetadataBlankDefault(user_id, user_info) ==
    [user_id |-> user_id,
     subscription_type |-> Get(user_info, "subscription_type", ""),
     account_age_days |-> Get(user_info, "account_age_days", 0)]

\* lines 208-212
UserMetadata(user_id, user_info) ==
    [user_id |-> user_id,
     subscription_type |-> Get(user_info, "subscription_type", "unknown"),
     account_age_days |-> Get(user_info, "account_age_days", 0)]

\* handle_support_query is called; lines 203-205: metadata = {}, and the
\* lookup is made only for a truthy user_id
CallHandleSupportQuery ==
    /\ apc = "ready"
    /\ method' = "handle_support_query"
    /\ \E u \in UserIds :
         /\ args' = [NoArgs EXCEPT !.user_id = u]
         /\ apc' = IF TruthyStr(u) THEN "lookup" ELSE "query"
    /\ hsq_metadata' = EmptyMapping
    /\ UNCHANGED <<heap, self_tools, crew_agent_tools, lookups, pq_calls,
                   api_calls, client_answer,
                   returned>>
    /\ UNCHANGED exceptAgent

\* lines 206-212: get_user_info returns
LookupReturns ==
    /\ apc = "lookup"
    /\ lookups' = lookups + 1
    /\ \E user_info \in UserInfos :
         /\ client_answer' = Answered(user_info, TRUE)
         /\ hsq_metadata' = UserMetadata(args.user_id, user_info)
    /\ apc' = "query"
    /\ UNCHANGED <<heap, self_tools, crew_agent_tools, method, args, pq_calls,
                   api_calls, returned>>
    /\ UNCHANGED exceptAgent

\* lines 213-214: get_user_info raises, the except branch logs a warning
LookupRaises ==
    /\ apc = "lookup"
    /\ lookups' = lookups + 1
    /\ client_answer' = ClientRaised
    /\ apc' = "query"
    /\ UNCHANGED <<heap, self_tools, crew_agent_tools, method, args,
                   hsq_metadata, pq_calls, api_calls, returned>>
    /\ UNCHANGED exceptAgent

\* lines 217-222: return await self.process_query(...)
AwaitProcessQuery ==
    /\ apc = "query"
    /\ pq_calls' = pq_calls + 1
    /\ \E r \in {Returned("None", "mapping"), Raised("RetryError")} :
         returned' = r
    /\ apc' = "returned"
    /\ UNCHANGED <<heap, self_tools, crew_agent_tools, method, args,
                   hsq_metadata, lookups, api_calls, client_answer>>
    /\ UNCHANGED exceptAgent

ToolOperations ==
    {"_create_support_ticket", "_lookup_account", "_manage_subscription"}

\* _manage_subscription, lines 145-175: does this call reach the client ?
ReachesClient(m, a) ==
    IF m # "_manage_subscription" THEN TRUE
    ELSE IF a.action = "check" THEN TRUE
    ELSE IF a.action \in {"upgrade", "downgrade"} THEN TruthyStr(a.plan)
    ELSE a.action = "cancel"

\* what the operation returns without reaching the client, lines 156, 176
ReturnedEarly(a) ==
    IF a.action \in {"upgrade", "downgrade"}
    THEN Returned("error", "Plan name is required for upgrade/downgrade")
    ELSE Returned("error", "Unknown action: ")

\* a tool operation is called by the crew runtime
CallToolOperation ==
    /\ apc = "ready"
    /\ \E m \in ToolOperations, ac \in Actions, pl \in Plans :
         LET a == [user_id |-> "None",
                   action |-> IF m = "_manage_subscription" THEN ac ELSE "None",
                   plan |-> IF m = "_manage_subscription" THEN pl ELSE "None"]
         IN  /\ method' = m
             /\ args' = a
             /\ IF ReachesClient(m, a)
                THEN apc' = "api" /\ returned' = returned
                ELSE apc' = "returned" /\ returned' = ReturnedEarly(a)
    /\ UNCHANGED <<heap, self_tools, crew_agent_tools, hsq_metadata, lookups,
                   pq_calls, api_calls, client_answer>>
    /\ UNCHANGED exceptAgent

\* the message of the operation's except branch
ErrorMessage(m) ==
    CASE m = "_create_support_ticket" ->
           "Unable to create support ticket. Please try again later."
      [] m = "_lookup_account" -> "Account not found or error in retrieval."
      [] m = "_manage_subscription" -> "Unable to process subscription request."

\* the mapping built from the client's answer; _lookup_account's has no
\* "status" entry
SuccessMapping(m) ==
    IF m = "_lookup_account" THEN Returned("None", "account")
    ELSE Returned("success", "mapping")

\* the except branch letting the failure through
ExceptReraises(m, e) == Raised(e)

\* except Exception as e: log, return {"status": "error", "message": ...}
Except(m, e) == Returned("error", ErrorMessage(m))

\* how the client answers: all the keys the operation reads | a mapping
\* lacking one of them (KeyError) | the client call raises
ClientAnswers == {"complete", "partial", "raises"}

\* the client call made by the tool operation comes back
ClientCallEnds ==
    /\ apc = "api"
    /\ api_calls' = api_calls + 1
    /\ \E answer \in ClientAnswers :
         /\ client_answer' = IF answer = "raises" THEN ClientRaised
                              ELSE Answered(EmptyMapping, answer = "complete")
         /\ returned' = CASE answer = "complete" -> SuccessMapping(method)
                          [] answer = "partial"  -> Except(method, "KeyError")
                          [] answer = "raises"   -> Except(method, "Exception")
    /\ apc' = "returned"
    /\ UNCHANGED <<heap, self_tools, crew_agent_tools, method, args,
                   hsq_metadata, lookups, pq_calls>>
    /\ UNCHANGED exceptAgent

InitAgent ==
    /\ apc = "new"
    /\ heap = << >>
    /\ self_tools = 0
    /\ crew_agent_tools = 0
    /\ method = "none"
    /\ args = NoArgs
    /\ hsq_metadata = EmptyMapping
    /\ lookups = 0
    /\ pq_calls = 0
    /\ api_calls = 0
    /\ client_answer = NoAnswer
    /\ returned = NoResult

NextAgent ==
    \/ BaseAgentInit
    \/ CreateLipachatClient
    \/ register_tools
    \/ CallHandleSupportQuery
    \/ LookupReturns
    \/ LookupRaises
    \/ AwaitProcessQuery
    \/ CallToolOperation
    \/ ClientCallEnds

-----------------------------------------------------------------------------
(* KnowledgeBaseTool._run (tools/knowledge_base.py).                       *)
(*                                                                         *)
(* A text is a sequence of characters over a four-letter alphabet with two *)
(* cases, and the sample knowledge base is cut down to two entries per     *)
(* category with short texts; its shape (products with name, description   *)
(* and features; faqs with question and answer; troubleshooting guides     *)
(* with issue and solutions) is that of _initialize_knowledge_base.        *)

Alphabet == {"a", "b", "A", "B"}

\* str.lower() on one character
LowerChar(ch) == CASE ch = "A" -> "a" [] ch = "B" -> "b" [] OTHER -> ch

\* str.lower()
Lower(text) == [i \in 1..Len(text) |-> LowerChar(text[i])]

\* Python's `q in text` on strings
In(q, text) ==
    \E i \in 0..(Len(text) - Len(q)) :
        \A j \in 1..Len(q) : text[i + j] = q[j]

\* any(q in x.lower() for x in texts)
AnyIn(q, texts) == \E i \in 1..Len(texts) : In(q, Lower(texts[i]))

\* _initialize_knowledge_base, lines 22-114
KnowledgeBase ==
    [products |->
       << [name |-> <<"A", "b">>, description |-> <<"b", "b">>,
           features |-> << <<"a", "a">>, <<"B">> >>],
          [name |-> <<"B">>, description |-> <<"a", "B">>,
           features |-> << <<"b", "A">> >>] >>,
     faqs |->
       << [question |-> <<"A", "a">>, answer |-> <<"b">>],
          [question |-> <<"b", "A">>, answer |-> <<"B", "b">>] >>,
     troubleshooting |->
       << [issue |-> <<"A">>, solutions |-> << <<"a", "b">>, <<"b">> >>],
          [issue |-> <<"B", "B">>, solutions |-> << <<"b", "a">> >>] >>]

\* _search_products, lines 165-176
search_products(kb, q) ==
    SelectSeq(kb.products,
              LAMBDA product :
                  \/ In(q, Lower(product.name))
                  \/ In(q, Lower(product.description))
                  \/ AnyIn(q, product.features))

\* _search_faqs returning every faq
search_faqs_all(kb, q) == kb.faqs

\* _search_faqs, lines 178-187
search_faqs(kb, q) ==
    SelectSeq(kb.faqs,
              LAMBDA faq : In(q, Lower(faq.question)) \/ In(q, Lower(faq.answer)))

\* _search_troubleshooting, lines 189-199
search_troubleshooting(kb, q) ==
    SelectSeq(kb.troubleshooting,
              LAMBDA guide : In(q, Lower(guide.issue)) \/ AnyIn(q, guide.solutions))

\* the search made for one category of categories_to_search, lines 139-153
Search(kb, cat, q) ==
    CASE cat = "products"        -> search_products(kb, q)
      [] cat = "faqs"            -> search_faqs(kb, q)
      [] cat = "troubleshooting" -> search_troubleshooting(kb, q)

KbMessage(text, arg) == [kind |-> "message", text |-> text, arg |-> arg,
                         results |-> EmptyMapping]
\* json.dumps(results, indent=2)
KbJson(results) == [kind |-> "json", text |-> "", arg |-> "",
                    results |-> results]
NoKbOutput == [kind |-> "none", text |-> "", arg |-> "", results |-> EmptyMapping]

\* KnowledgeBaseTool._run, lines 116-163
run(kb, query, cat) ==
    LET q == Lower(query)
    IN  IF TruthyStr(cat) /\ cat \notin DOMAIN kb
        THEN KbMessage("Category not found in knowledge base.", cat)
        ELSE LET categories_to_search ==
                     IF TruthyStr(cat) THEN {cat} ELSE DOMAIN kb
                 found == {c \in categories_to_search : Search(kb, c, q) # << >>}
                 results == [c \in found |-> Search(kb, c, q)]
             IN  IF found = {}
                 THEN KbMessage("No matching information found in the knowledge base.", "")
                 ELSE KbJson(results)

Queries == SeqsUpTo(Alphabet, MaxQueryLen)
Categories == {"None", "", "products", "faqs", "troubleshooting", "billing"}

\* the crew runtime calls the tool
CallRun ==
    /\ kpc = "idle"
    /\ \E query \in Queries, cat \in Categories :
         /\ kb_query' = query
         /\ category' = cat
         /\ kb_output' = run(knowledge_base, query, cat)
    /\ knowledge_base' = knowledge_base
    /\ kpc' = "done"
    /\ UNCHANGED exceptKb

InitKb ==
    /\ kpc = "idle"
    /\ knowledge_base = KnowledgeBase
    /\ kb_query = << >>
    /\ category = "None"
    /\ kb_output = NoKbOutput

NextKb == CallRun

-----------------------------------------------------------------------------
(* LipaChatAPI._make_request (utils/lipachat_api.py), over httpx:          *)
(* raise_for_status() raises HTTPStatusError for every status outside      *)
(* 200-299, response.json() raises when the body is not JSON, and a        *)
(* transport failure raises a RequestError from the client call.           *)

Methods == {"get", "GET", "Get", "post", "POST", "put", "PUT", "delete",
            "DELETE", "patch", "HEAD", ""}

\* str.lower() on the method names above, left as it is
LowerMethodIdentity(m) == m

\* str.lower() on the method names above
LowerMethod(m) ==
    CASE m \in {"get", "GET", "Get"} -> "get"
      [] m \in {"post", "POST"}      -> "post"
      [] m \in {"put", "PUT"}        -> "put"
      [] m \in {"delete", "DELETE"}  -> "delete"
      [] m = "HEAD"                  -> "head"
      [] OTHER                       -> m

\* lines 45-52: the client call made for a method, "none" for the else branch
ClientCall(m, d) ==
    CASE LowerMethod(m) = "get"    -> [verb |-> "GET", params |-> d, json |-> "None"]
      [] LowerMethod(m) = "post"   -> [verb |-> "POST", params |-> "None", json |-> d]
      [] LowerMethod(m) = "put"    -> [verb |-> "PUT", params |-> "None", json |-> d]
      [] LowerMethod(m) = "delete" -> [verb |-> "DELETE", params |-> d, json |-> "None"]
      [] OTHER -> [verb |-> "none", params |-> "None", json |-> "None"]

NothingSent == [verb |-> "none", params |-> "None", json |-> "None"]

StatusCodes == {200, 201, 301, 404, 500}

NoRemote == [kind |-> "none", status_code |-> 0, is_json |-> FALSE]
\* a response came back
Response(status_code, is_json) ==
    [kind |-> "response", status_code |-> status_code, is_json |-> is_json]
\* the transport failed (connection error, timeout)
TransportError == [kind |-> "error", status_code |-> 0, is_json |-> FALSE]

Remotes ==
    {Response(c, j) : c \in StatusCodes, j \in BOOLEAN} \cup {TransportError}

\* httpx Response.is_success
is_success(status_code) == 200 <= status_code /\ status_code <= 299

NotMade == [kind |-> "none", value |-> "None"]
MadeReturn(v) == [kind |-> "return", value |-> v]
MadeRaise(e) == [kind |-> "raise", value |-> e]

\* lines 56-57 and the except branches 58-66, every one of which re-raises
AfterResponse(rem) ==
    IF rem.kind = "error" THEN MadeRaise("RequestError")
    ELSE IF ~is_success(rem.status_code) THEN MadeRaise("HTTPStatusError")
    ELSE IF ~rem.is_json THEN MadeRaise("JSONDecodeError")
    ELSE MadeReturn("parsed body")

\* _make_request is called; lines 41-54
CallMakeRequest ==
    /\ mpc = "idle"
    /\ \E m \in Methods, d \in {"None", "data"} :
         /\ http_method' = m
         /\ data' = d
         /\ IF ClientCall(m, d).verb = "none"
            THEN /\ made' = MadeRaise("ValueError")
                 /\ mpc' = "done"
                 /\ UNCHANGED <<requests_sent, sent>>
            ELSE /\ sent' = ClientCall(m, d)
                 /\ requests_sent' = requests_sent + 1
                 /\ mpc' = "sent"
                 /\ made' = made
    /\ UNCHANGED came_back
    /\ UNCHANGED exceptApi

\* the awaited client call comes back; lines 56-66
RequestEnds ==
    /\ mpc = "sent"
    /\ \E rem \in Remotes :
         /\ came_back' = rem
         /\ made' = AfterResponse(rem)
    /\ mpc' = "done"
    /\ UNCHANGED <<http_method, data, requests_sent, sent>>
    /\ UNCHANGED exceptApi

InitApi ==
    /\ mpc = "idle"
    /\ http_method = "None"
    /\ data = "None"
    /\ requests_sent = 0
    /\ sent = NothingSent
    /\ came_back = NoRemote
    /\ made = NotMade

NextApi == CallMakeRequest \/ RequestEnds

-----------------------------------------------------------------------------
(* The log_requests middleware (main.py lines 41-67).  call_next runs the  *)
(* rest of the application: it gives back the response the routing layer   *)
(* produced (HTTPException and validation errors are already responses     *)
(* there), or raises what escaped it.                                      *)

HttpMethods == {"GET", "POST"}

Paths == {"/", "/health", "/api/customer-support/query",
          "/api/customer-support/troubleshoot",
          "/api/customer-support/feedback", "/api/marketing/generate-content",
          "/api/crew/customer-feedback-campaign", "/api/crew/customer-issue"}

\* JSONResponse(status_code, content={"detail": detail}) and friends
JSONResponse(status_code, detail) ==
    [status_code |-> status_code, detail |-> detail]

NoClientResponse == JSONResponse(0, "None")

\* what the routing layer can answer
DownstreamResponses ==
    {JSONResponse(200, "None"),
     JSONResponse(404, "Not Found"),
     JSONResponse(405, "Method Not Allowed"),
     JSONResponse(422, "field required"),
     JSONResponse(500, "Failed to initialize agent crew"),
     JSONResponse(500, "Failed to handle customer issue: kickoff failed")}

\* what can escape the routing layer
EscapingExceptions == {"RuntimeError", "ResponseValidationError"}

NoDownstream == [kind |-> "none", response |-> NoClientResponse,
                 exception |-> "None"]
Gave(resp) == [kind |-> "response", response |-> resp, exception |-> "None"]
Escaped(e) == [kind |-> "exception", response |-> NoClientResponse,
               exception |-> e]

\* how one run of the middleware ends: it returns a response or raises
MwReturn(resp) == [raised |-> FALSE, response |-> resp]
MwRaise(e)     == [raised |-> TRUE, response |-> NoClientResponse]

\* the except branch of log_requests re-raising after the log line
LogRequestsExceptReraises(e) == MwRaise(e)

\* the except branch of log_requests, lines 57-67
LogRequestsExcept(e) == MwReturn(JSONResponse(500, "Internal server error"))

\* a request reaches the middleware: start_time is taken, call_next awaited
MwReceive ==
    /\ mwpc = "idle"
    /\ \E m \in HttpMethods, path \in Paths :
         request' = [method |-> m, path |-> path]
    /\ mwpc' = "call_next"
    /\ UNCHANGED <<downstream, client_response, responses, mw_raised>>
    /\ UNCHANGED exceptMw

\* lines 46-56: call_next returns a response; it is logged and returned
CallNextReturns ==
    /\ mwpc = "call_next"
    /\ \E resp \in DownstreamResponses :
         /\ downstream' = Gave(resp)
         /\ client_response' = resp
    /\ responses' = responses + 1
    /\ mwpc' = "done"
    /\ UNCHANGED <<request, mw_raised>>
    /\ UNCHANGED exceptMw

\* lines 57-67: call_next raises; the error is logged and answered with 500
CallNextRaises ==
    /\ mwpc = "call_next"
    /\ \E e \in EscapingExceptions :
         LET end == LogRequestsExcept(e) IN
           /\ downstream' = Escaped(e)
           /\ client_response' = end.response
           /\ mw_raised' = end.raised
           /\ responses' = IF end.raised THEN responses ELSE responses + 1
    /\ mwpc' = "done"
    /\ UNCHANGED request
    /\ UNCHANGED exceptMw

InitMw ==
    /\ mwpc = "idle"
    /\ request = [method |-> "None", path |-> "None"]
    /\ downstream = NoDownstream
    /\ client_response = NoClientResponse
    /\ responses = 0
    /\ mw_raised = FALSE

NextMw == MwReceive \/ CallNextReturns \/ CallNextRaises

-----------------------------------------------------------------------------
(* Specifications *)

Init ==
    InitRetry /\ InitCrew /\ InitPrompt /\ InitHttp /\ InitAgent /\ InitKb
    /\ InitApi /\ InitMw

\* the retry-wrapped operations
SpecRetry == Init /\ [][NextRetry]_vars

\* the retry-wrapped operations with every started attempt and every sleep
\* coming to an end: a remote attempt returns or fails, a sleep elapses
SpecRetryFair ==
    Init /\ [][NextRetry]_vars /\ WF_vars(DoAttempt) /\ WF_vars(DoSleep)

\* the crew workflows behind their HTTP handlers
SpecCrew == Init /\ [][NextCrew]_vars

\* the prompt builders applied to one set of arguments
SpecPrompt == Init /\ [][NextPrompt]_vars

\* requests served by FastAPI and the routers
SpecHttp == Init /\ [][NextHttp]_vars

\* one CustomerSupportAgent, constructed and then called once
SpecAgent == Init /\ [][NextAgent]_vars

\* the knowledge base tool run on one query
SpecKb == Init /\ [][NextKb]_vars

\* one call of the backing REST API client
SpecApi == Init /\ [][NextApi]_vars

\* one request through the logging middleware
SpecMw == Init /\ [][NextMw]_vars

-----------------------------------------------------------------------------
(* Properties of the retry-wrapped operations (checked under SpecRetry) *)

IsTransientFailure(a) == a.failed /\ a.class \in TransientClasses
IsOtherFailure(a)     == a.failed /\ a.class \notin TransientClasses

\* C1: generate_response starts a further attempt only after an attempt that
\* raised AnthropicError, ConnectionError or TimeoutError; an attempt that
\* raises anything else ends the call at once with that very failure.
C1_RetryOnlyOnTransient ==
    op = "generate_response" =>
      /\ \A i \in 1..attempt_number :
           (i < attempt_number \/ rpc \in {"sleeping", "attempting"})
             => IsTransientFailure(script[i])
      /\ (attempt_number >= 1 /\ IsOtherFailure(script[attempt_number]))
           => /\ rpc = "done"
              /\ delivered = Raise(Exc(script[attempt_number].class, attempt_number))

C1_Witness ==
    /\ op = "generate_response"
    /\ rpc = "done"
    /\ invocations = 1
    /\ script[1].failed /\ script[1].class = "ValueError"
    /\ delivered = Raise(Exc("ValueError", 1))

\* C2: when the remote side fails attempts 1 and 2 of generate_response with
\* a transient error and answers attempt 3, the call makes exactly three
\* invocations and returns the text of attempt 3.
C2_RetryIdempotence ==
    ( /\ op = "generate_response"
      /\ rpc = "done"
      /\ IsTransientFailure(script[1])
      /\ IsTransientFailure(script[2])
      /\ ~script[3].failed )
    => /\ invocations = 3
       /\ delivered = Return(script[3].value)

\* C3: a request makes at most 3 attempts of the remote invocation, and the
\* wrapped operation is started at most once for it.
C3_AtMostThreeAttempts ==
    /\ invocations <= 3
    /\ attempt_number <= 3
    /\ calls <= 1

C3_Witness ==
    /\ op = "process_query"
    /\ rpc = "done"
    /\ calls = 1
    /\ attempt_number = 3
    /\ lastExc.attempt = 3

\* C4: a call whose 3 attempts all fail delivers to its caller the failure
\* raised by the third attempt, unwrapped.
C4_LastFailureSurfaces ==
    ( /\ rpc = "done"
      /\ attempt_number = 3
      /\ lastExc.attempt = 3 )
    => delivered = Raise(lastExc)

\* C24: process_query is attempted again after a failure of any kind, the
\* language check and the task construction are done anew on every
\* attempt, and a call whose attempts all fail ends after the third attempt
\* with a failure, never with a returned mapping.
C24_WholeBodyRetried ==
    op = "process_query" =>
      /\ language_checks = attempt_number
      /\ tasks_built = attempt_number
      /\ rpc = "sleeping" => lastExc.attempt = attempt_number
      /\ (rpc = "done" /\ lastExc.attempt = attempt_number) =>
           /\ attempt_number = 3
           /\ delivered.kind = "raise"

\* C12: a process_query call whose crew run succeeds returns a mapping whose
\* language, also used in the task description, is the requested one when
\* that is in the supported set and the configured default otherwise.
C12_LanguageFallback ==
    ( /\ op = "process_query"
      /\ rpc = "done"
      /\ ~script[1].failed )
    => /\ delivered.kind = "return"
       /\ HasSetting("SUPPORTED_LANGUAGES")
       /\ HasSetting("DEFAULT_LANGUAGE")
       /\ result_language = IF language \in Settings.SUPPORTED_LANGUAGES
                            THEN language
                            ELSE Settings.DEFAULT_LANGUAGE
       /\ task_language = result_language

\* no wait before the first attempt and none after the last one
WaitsOnlyBetweenAttempts ==
    /\ rpc = "idle" => waits = << >>
    /\ rpc \in {"attempting", "sleeping"} => Len(waits) = attempt_number
    /\ rpc = "done" => Len(waits) = attempt_number - 1

\* C5 as stated: the wait before attempt 2 is 2, the wait before attempt 3 is
\* larger, every wait lies in [2, 10], waits occur only between attempts.
C5_WaitsGrow ==
    /\ Len(waits) >= 1 => waits[1] = 2
    /\ Len(waits) >= 2 => waits[2] > waits[1]
    /\ \A k \in DOMAIN waits : waits[k] >= 2 /\ waits[k] <= 10
    /\ WaitsOnlyBetweenAttempts

\* C5 (amended): the wait before attempt 2 is 2, the wait before attempt 3 is
\* not larger but equal to it (2), every wait lies in [2, 10], waits occur
\* only between attempts.
C5_WaitsClamped ==
    /\ Len(waits) >= 1 => waits[1] = 2
    /\ Len(waits) >= 2 => waits[2] = waits[1]
    /\ \A k \in DOMAIN waits : waits[k] >= 2 /\ waits[k] <= 10
    /\ WaitsOnlyBetweenAttempts

C5_Witness ==
    /\ op = "process_query"
    /\ rpc = "attempting"
    /\ attempt_number = 2
    /\ waits = <<2, 2>>

-----------------------------------------------------------------------------
(* Properties of the crew workflows (checked under SpecCrew) *)

Started(i) == taskState[i] # "pending"

\* index of the task called n in the executed task list (0 when absent)
IndexOf(n) ==
    IF \E i \in DOMAIN tasks : tasks[i].name = n
    THEN CHOOSE i \in DOMAIN tasks : tasks[i].name = n
    ELSE 0

ForwardRefs(t) == {e.ref : e \in {x \in t.context : x.kind = "forward"}}

\* C6: tasks run in task-list order, one at a time: a task is started only
\* when all tasks before it in the list are done, and never two run at once.
C6_StrictlySequential ==
    /\ Cardinality({i \in DOMAIN taskState : taskState[i] = "running"}) <= 1
    /\ \A i \in DOMAIN taskState :
         Started(i) => \A j \in 1..(i - 1) : taskState[j] = "done"
    /\ \A k \in DOMAIN startOrder : startOrder[k] = k

\* the second feedback task runs; it takes nothing from the first one
C6_Witness ==
    /\ workflow = "feedback"
    /\ Len(taskState) = 3
    /\ taskState[1] = "done"
    /\ taskState[2] = "running"
    /\ ForwardRefs(tasks[2]) = {}
    /\ taskState[3] = "pending"

\* C7: once a task has failed no later task is started, the workflow method
\* raises, and the answer is a 500 without any task output; a returned
\* mapping always holds the output of every task.
C7_FailureAbortsChain ==
    /\ \A i \in DOMAIN taskState :
         taskState[i] = "failed" =>
           /\ \A j \in (i + 1)..Len(tasks) : taskState[j] = "pending"
           /\ wfResult.kind = "raise"
           /\ response.status_code = 500
           /\ response.status # "success"
           /\ response.result = EmptyMapping
    /\ wfResult.kind = "return" =>
         /\ \A i \in DOMAIN taskState : taskState[i] = "done"
         /\ Cardinality(DOMAIN wfResult.mapping) = Len(tasks)
         /\ \A k \in DOMAIN wfResult.mapping : wfResult.mapping[k] # NoOutput

\* the second task fails after the first one has produced its output
C7_Witness ==
    /\ wpc = "responded"
    /\ Len(taskState) >= 3
    /\ taskState[1] = "done" /\ outputs[1] # NoOutput
    /\ taskState[2] = "failed"
    /\ taskState[3] = "pending"
    /\ response.status_code = 500

\* mapping m binds key k to the output of the task called n
Bound(m, k, n) ==
    /\ k \in DOMAIN m
    /\ IndexOf(n) # 0
    /\ m[k] = outputs[IndexOf(n)]
    /\ m[k].task = n

\* C8: the feedback-campaign result binds feedback_analysis, campaign_analysis
\* and response_plan to the outputs of the feedback-analysis, campaign-analysis
\* and response-plan tasks; the customer-issue result binds issue_resolution,
\* retention_plan and follow_up_content to its three tasks in the same way.
C8_ResultAligned ==
    wfResult.kind = "return" =>
      /\ workflow = "feedback" =>
           /\ DOMAIN wfResult.mapping =
                {"feedback_analysis", "campaign_analysis", "response_plan"}
           /\ Bound(wfResult.mapping, "feedback_analysis", "analyze_feedback_task")
           /\ Bound(wfResult.mapping, "campaign_analysis", "campaign_analysis_task")
           /\ Bound(wfResult.mapping, "response_plan", "create_response_plan_task")
      /\ workflow = "issue" =>
           /\ DOMAIN wfResult.mapping =
                {"issue_resolution", "retention_plan", "follow_up_content"}
           /\ Bound(wfResult.mapping, "issue_resolution", "troubleshoot_task")
           /\ Bound(wfResult.mapping, "retention_plan", "customer_retention_task")
           /\ Bound(wfResult.mapping, "follow_up_content", "personalized_content_task")

C8_Witness ==
    /\ workflow = "feedback"
    /\ Len(outputs) = 3
    /\ wfResult.kind = "return"
    /\ response.status = "success"
    /\ outputs[1].v # outputs[2].v

MarketingAligned3(m) ==
    /\ DOMAIN m = {"campaign_plan", "campaign_content", "support_materials"}
    /\ Len(tasks) = 3
    /\ Bound(m, "campaign_plan", "campaign_planning_task")
    /\ Bound(m, "campaign_content", "content_creation_task")
    /\ Bound(m, "support_materials", "support_preparation_task")

MarketingAligned4(m) ==
    /\ DOMAIN m = {"market_research", "campaign_plan", "campaign_content",
                   "support_materials"}
    /\ Len(tasks) = 4
    /\ Bound(m, "market_research", "market_research_task")
    /\ Bound(m, "campaign_plan", "campaign_planning_task")
    /\ Bound(m, "campaign_content", "content_creation_task")
    /\ Bound(m, "support_materials", "support_preparation_task")

\* C9 as stated: without market_data the marketing result has the four keys
\* bound to tasks 1..4, and with market_data supplied it has the three keys
\* bound to the three executed tasks.
C9_MarketingAligned ==
    (workflow = "marketing" /\ wfResult.kind = "return") =>
      IF market_data = "None"
      THEN MarketingAligned4(wfResult.mapping)
      ELSE MarketingAligned3(wfResult.mapping)

\* C9 (amended): the four-key result belongs to an absent or empty
\* market_data, the three-key result to a supplied non-empty one.
C9_MarketingAlignedTruthy ==
    (workflow = "marketing" /\ wfResult.kind = "return") =>
      IF market_data \in {"None", "Empty"}
      THEN MarketingAligned4(wfResult.mapping)
      ELSE MarketingAligned3(wfResult.mapping)

C9_Witness ==
    /\ workflow = "marketing"
    /\ market_data = "Data"
    /\ Len(outputs) = 3
    /\ wfResult.kind = "return"
    /\ outputs[1].v # outputs[2].v
    /\ Cardinality(DOMAIN wfResult.mapping) = 3

\* every forward reference of every listed task names a task placed earlier
\* in the list, and a started consumer finds its producers done
ProducersFirst ==
    \A i \in DOMAIN tasks : \A n \in ForwardRefs(tasks[i]) :
      /\ IndexOf(n) # 0
      /\ IndexOf(n) < i
      /\ (i \in DOMAIN taskState /\ Started(i)) => taskState[IndexOf(n)] = "done"

MarketResearchEntry ==
    {e \in tasks[IndexOf("campaign_planning_task")].context :
        e.key = "market_research"}

\* C10 as stated: producers precede consumers in every workflow, and with
\* market_data supplied the planning task's market_research entry is the
\* literal market_data.
C10_ProducerOrdering ==
    /\ ProducersFirst
    /\ (workflow = "marketing" /\ tasks # << >> /\ market_data # "None") =>
         MarketResearchEntry = {Literal("market_research", market_data)}

\* C10 (amended): the literal entry belongs to a supplied non-empty
\* market_data; an empty one gets the research task and its placeholder.
C10_ProducerOrderingTruthy ==
    /\ ProducersFirst
    /\ (workflow = "marketing" /\ tasks # << >> /\ market_data = "Data") =>
         MarketResearchEntry = {Literal("market_research", market_data)}
    /\ (workflow = "marketing" /\ tasks # << >> /\ market_data # "Data") =>
         /\ MarketResearchEntry =
              {WillBeFilledBy("market_research", "market_research_task")}
         /\ IndexOf("market_research_task") = 1

C10_Witness ==
    /\ workflow = "marketing"
    /\ market_data = "Data"
    /\ Len(tasks) = 3
    /\ Len(taskState) = 3
    /\ taskState[2] = "running"
    /\ "campaign_planning_task" \in ForwardRefs(tasks[2])

\* number of tasks of the list that have run to completion
TasksRun == Cardinality({i \in DOMAIN taskState : taskState[i] = "done"})

\* C11 as stated: feedback-campaign and customer-issue run 3 tasks, and
\* marketing-campaign runs 5 tasks, or 4 when market data is supplied.
C11_TaskCounts ==
    response.status = "success" =>
      /\ workflow = "feedback" => TasksRun = 3 /\ Len(tasks) = 3
      /\ workflow = "issue" => TasksRun = 3 /\ Len(tasks) = 3
      /\ workflow = "marketing" =>
           /\ TasksRun = Len(tasks)
           /\ Len(tasks) = IF market_data = "None" THEN 5 ELSE 4

\* C11 (amended): feedback-campaign and customer-issue run 3 tasks, and
\* marketing-campaign runs 4 tasks when market data is absent or empty and
\* 3 tasks when non-empty market data is supplied.
C11_TaskCountsThreeOrFour ==
    /\ wpc \in {"kickoff", "responded"} /\ tasks # << >> =>
         Len(tasks) = CASE workflow = "marketing" /\ market_data = "Data" -> 3
                        [] workflow = "marketing" -> 4
                        [] OTHER -> 3
    /\ response.status = "success" => TasksRun = Len(tasks)

C11_Witness ==
    /\ workflow = "marketing"
    /\ market_data = "Data"
    /\ response.status = "success"
    /\ TasksRun = 3

-----------------------------------------------------------------------------
(* Properties of the prompt builders (checked under SpecPrompt) *)

Built == ppc = "built"

\* the turn lines of a built prompt, in order
TurnLinesOf(lines) == SelectSeq(lines, LAMBDA l : l.kind = "turn")

\* the lines the last n turns of history h render to, in order
LastTurnsRendered(h, n) ==
    LET first == Max(Len(h) - n, 0) + 1
    IN  Concat([i \in 1..(Len(h) - first + 1) |-> TurnLines(h[first + i - 1])])

\* C13: the context _prepare_context builds from a non-empty history holds
\* the lines of exactly the last N turns (all turns when there are N or
\* fewer), in their original order, N being the configured maximum.
C13_HistoryTrimmed ==
    ( /\ Built
      /\ builder = "_prepare_context"
      /\ Nonempty(conversation_history) )
    => /\ HasSetting("MAX_CONVERSATION_HISTORY")
       /\ prompt.kind = "return"
       /\ TurnLinesOf(prompt.lines) =
            LastTurnsRendered(conversation_history.items,
                              Settings.MAX_CONVERSATION_HISTORY)

\* every line holding header text is followed by a line of the given kind
HeaderFollowed(lines, header, kind) ==
    \A i \in 1..Len(lines) :
        lines[i] = Text(header) => i < Len(lines) /\ lines[i + 1].kind = kind

\* C14: a prompt is built for every input and has no empty section: each
\* section header is followed by at least one line of its section, also
\* for turns with neither a user nor an assistant field, and with no
\* history and no metadata the context is the empty string.
C14_NoEmptySection ==
    Built =>
      /\ prompt.kind = "return"
      /\ HeaderFollowed(prompt.lines, "Conversation history:", "turn")
      /\ HeaderFollowed(prompt.lines, "Additional context:", "kv")
      /\ HeaderFollowed(prompt.lines, "Previous conversation:", "turn")
      /\ HeaderFollowed(prompt.lines, "Customer information:", "item")
      /\ HeaderFollowed(prompt.lines, "Product information:", "item")
      /\ ( /\ builder = "_prepare_context"
           /\ ~Nonempty(conversation_history)
           /\ ~Nonempty(metadata) ) => prompt.lines = << >>

\* position of the line holding header text, 0 when there is none
Pos(lines, header) ==
    IF \E i \in 1..Len(lines) : lines[i] = Text(header)
    THEN CHOOSE i \in 1..Len(lines) : lines[i] = Text(header)
    ELSE 0

HistoryPos == Max(Pos(prompt.lines, "Conversation history:"),
                  Pos(prompt.lines, "Previous conversation:"))
MetadataPos == Max(Pos(prompt.lines, "Additional context:"),
                   Pos(prompt.lines, "Customer information:"))

\* C15 as stated: in every built prompt that has both a history section and
\* a metadata / customer-information section, the history section comes
\* first.
C15_HistoryBeforeMetadata ==
    (Built /\ HistoryPos > 0 /\ MetadataPos > 0) => HistoryPos < MetadataPos

\* the fixed texts (role instruction, query label, section headers) of a
\* prompt, in the order they appear
Titles(lines) ==
    LET fixed == SelectSeq(lines, LAMBDA l : l.kind \in {"text", "query"})
    IN  [i \in 1..Len(fixed) |-> fixed[i].a]

If(cond, title) == IF cond THEN <<title>> ELSE << >>

\* C15 (amended): each builder has one fixed order of its own.
\* create_customer_support_prompt: role instruction, customer query,
\* customer information, previous conversation, product information (so
\* customer information precedes the conversation); _prepare_context: the
\* conversation-history section, then the additional-context section.
C15_FixedOrderPerBuilder ==
    (Built /\ prompt.kind = "return") =>
      /\ builder = "create_customer_support_prompt" =>
           Titles(prompt.lines) =
             <<RoleInstruction.a, "Customer query: ">>
             \o If(Nonempty(metadata), "Customer information:")
             \o If(Nonempty(conversation_history), "Previous conversation:")
             \o If(Nonempty(product_info), "Product information:")
      /\ builder = "_prepare_context" =>
           /\ HistoryPos > 0 /\ MetadataPos > 0 => HistoryPos < MetadataPos
           /\ \A i \in 1..Len(prompt.lines) :
                prompt.lines[i].kind = "text" =>
                  prompt.lines[i].a \in {"Conversation history:",
                                         "Additional context:"}

C15_Witness ==
    /\ Built
    /\ builder = "create_customer_support_prompt"
    /\ Nonempty(conversation_history)
    /\ Nonempty(metadata)
    /\ MetadataPos > 0
    /\ MetadataPos < HistoryPos

-----------------------------------------------------------------------------
(* Properties of the HTTP layer (checked under SpecHttp) *)

Responded(r) == hpc[r] = "responded"
Failed(r) == Responded(r) /\ http_response[r].status # "success"

\* the request lacks a required field or carries an empty text
ViolatesConstraint(r) == body[r] \in {"missing", "empty"}

\* C16: a request that violates a declared field constraint (required field
\* missing, or empty query) is rejected as a validation failure before any
\* agent or crew is constructed and before any remote call is made.
C16_RejectedBeforeConstruction ==
    \A r \in Requests :
        ViolatesConstraint(r) =>
          /\ constructions[r] = 0
          /\ remote_calls[r] = 0
          /\ Responded(r) => outcome[r] = "validation"

C18_GenericDetail ==
    \A r, q \in Requests :
        ( /\ Failed(r) /\ Failed(q)
          /\ endpoint[r] = endpoint[q]
          /\ outcome[r] = outcome[q]
          /\ outcome[r] \in {"initialization", "processing"} )
        => http_response[r] = http_response[q]

InitDetails == {InitDetail(ep) : ep \in Endpoints}
HandlerDetails == {HandlerDetail(ep) : ep \in Endpoints}

C20_QueryAnswered ==
    \A r \in Requests :
        ( /\ endpoint[r] = "/api/customer-support/query"
          /\ body[r] = "valid"
          /\ Responded(r)
          /\ outcome[r] # "initialization" )
        => /\ http_response[r].status = "success"
           /\ agent_calls[r] = 1
           /\ Pos(prepare_context(Some(<< >>), Some(<< >>)).lines,
                  "Conversation history:") = 0

\* everything the service holds for request r
Local(r) ==
    <<hpc[r], endpoint[r], body[r], constructions[r], handler_runs[r],
      agent_calls[r], remote_calls[r], outcome[r], http_response[r],
      agent_id[r]>>

\* the same after the step
LocalNext(r) ==
    <<hpc'[r], endpoint'[r], body'[r], constructions'[r], handler_runs'[r],
      agent_calls'[r], remote_calls'[r], outcome'[r], http_response'[r],
      agent_id'[r]>>

\* no two requests hold the same agent / crew object
OwnObjects ==
    \A r, q \in Requests :
        (r # q /\ agent_id[r] # 0) => agent_id[r] # agent_id[q]

\* a step taken for one request changes nothing held for another one, and
\* no step writes the settings
Isolated ==
    /\ settings' = settings
    /\ \A r, q \in Requests :
         (r # q /\ LocalNext(r) # Local(r)) => LocalNext(q) = Local(q)

\* C21: requests handled concurrently do not interfere: each constructs its
\* own agent / crew object, the settings object is the only thing they
\* share and is never written, and under every interleaving a step of one
\* request leaves what the other request holds, and so its outcome, as it
\* is when that request runs alone.
C21_NoInterference == []OwnObjects /\ [][Isolated]_vars

C21_Witness ==
    \E r, q \in Requests :
        /\ r # q
        /\ hpc[r] = "handler"
        /\ hpc[q] = "responded" /\ outcome[q] = "processing"
        /\ agent_id[r] # 0 /\ agent_id[q] # 0
        /\ agent_id[r] < agent_id[q]
        /\ settings = Settings

-----------------------------------------------------------------------------
(* Termination of the retry-wrapped operations (checked under SpecRetryFair) *)

InFlight == rpc \in {"attempting", "sleeping"}

Ended == rpc = "done" /\ delivered.kind \in {"return", "raise"}

\* C22: a started call always ends, after at most three attempts, with
\* exactly one result, a returned value or a raised failure; it never stays
\* attempting or sleeping forever, and once ended its result stays.
C22_Terminates ==
    /\ [](attempt_number <= 3)
    /\ [](rpc = "done" => delivered.kind \in {"return", "raise"})
    /\ [](InFlight => delivered = NoDelivery)
    /\ (InFlight ~> Ended)

C22_Witness ==
    /\ Ended
    /\ op = "process_query"
    /\ attempt_number = 3
    /\ Len(waits) = 2
    /\ delivered.kind = "raise"

-----------------------------------------------------------------------------
(* Properties of CustomerSupportAgent (checked under SpecAgent) *)

Constructed == apc \notin {"new", "base", "client"}

\* C23: once a CustomerSupportAgent is constructed, the tools its crew agent
\* runs with are the four tools register_tools registered.
C23_CrewAgentHasRegisteredTools ==
    Constructed => Deref(crew_agent_tools) = RegisteredTools

\* C25: handle_support_query never fails because of the user-information
\* lookup: without a user_id no lookup is made; a lookup that raises leaves
\* the metadata empty and the query is still processed; a lookup that
\* succeeds gives user_id, subscription_type (default 'unknown') and
\* account_age_days (default 0); process_query is called exactly once.
C25_LookupNeverFailsQuery ==
    method = "handle_support_query" =>
      /\ lookups = IF TruthyStr(args.user_id) /\ apc # "lookup" THEN 1 ELSE 0
      /\ apc \in {"lookup", "query", "returned"}
      /\ pq_calls = IF apc = "returned" THEN 1 ELSE 0
      /\ client_answer.kind \in {"none", "raised"} =>
           hsq_metadata = EmptyMapping
      /\ client_answer.kind = "returned" =>
           /\ DOMAIN hsq_metadata =
                {"user_id", "subscription_type", "account_age_days"}
           /\ hsq_metadata.user_id = args.user_id
           /\ hsq_metadata.subscription_type =
                IF "subscription_type" \in DOMAIN client_answer.info
                THEN client_answer.info["subscription_type"] ELSE "unknown"
           /\ hsq_metadata.account_age_days =
                IF "account_age_days" \in DOMAIN client_answer.info
                THEN client_answer.info["account_age_days"] ELSE 0

C25_Witness ==
    /\ method = "handle_support_query"
    /\ apc = "returned"
    /\ args.user_id = "user-1"
    /\ client_answer.kind = "raised"
    /\ hsq_metadata = EmptyMapping
    /\ pq_calls = 1

\* the action is none of check, upgrade, downgrade, cancel, or an upgrade /
\* downgrade names no plan
NothingToDo ==
    \/ args.action \notin {"check", "upgrade", "downgrade", "cancel"}
    \/ args.action \in {"upgrade", "downgrade"} /\ args.plan \in {"None", ""}

\* C26: the support tool operations never raise to their caller: a failure
\* of the backing API client comes back as a mapping with status 'error';
\* _manage_subscription makes no client call when there is nothing to do
\* and exactly one otherwise.
C26_ToolsNeverRaise ==
    method \in ToolOperations =>
      /\ returned.kind # "raise"
      /\ apc = "returned" => returned.kind = "return"
      /\ client_answer.kind = "raised" => returned.status = "error"
      /\ (method = "_manage_subscription" /\ apc = "returned") =>
           api_calls = IF NothingToDo THEN 0 ELSE 1
      /\ (method # "_manage_subscription" /\ apc = "returned") => api_calls = 1

C26_Witness ==
    /\ method = "_manage_subscription"
    /\ apc = "returned"
    /\ args.action = "upgrade"
    /\ args.plan = "pro"
    /\ client_answer.kind = "raised"
    /\ returned = Returned("error", "Unable to process subscription request.")
    /\ api_calls = 1

-----------------------------------------------------------------------------
(* Properties of KnowledgeBaseTool._run (checked under SpecKb) *)

CategoryGiven == category \notin {"None", ""}

\* entry of category c matches the lower-cased query
Matches(c, entry) ==
    LET q == Lower(kb_query)
        hit(text) == \E i \in 0..(Len(text) - Len(q)) :
                         SubSeq(Lower(text), i + 1, i + Len(q)) = q
    IN  CASE c = "products" ->
               \/ hit(entry.name) \/ hit(entry.description)
               \/ \E k \in 1..Len(entry.features) : hit(entry.features[k])
          [] c = "faqs" -> hit(entry.question) \/ hit(entry.answer)
          [] c = "troubleshooting" ->
               \/ hit(entry.issue)
               \/ \E k \in 1..Len(entry.solutions) : hit(entry.solutions[k])

SearchedCategories ==
    IF CategoryGiven THEN {category}
    ELSE {"products", "faqs", "troubleshooting"}

\* C27: _run leaves the knowledge base unchanged; an unknown category gets
\* the 'not found' message; otherwise only the given category (all three
\* when none is given) is searched, every section of the result is
\* non-empty and holds only entries of its category that match the
\* lower-cased query, and when nothing matches the 'No matching
\* information' message is returned.
C27_KnowledgeBaseSearch ==
    kpc = "done" =>
      /\ knowledge_base = KnowledgeBase
      /\ IF CategoryGiven /\ category \notin DOMAIN KnowledgeBase
         THEN kb_output = KbMessage("Category not found in knowledge base.",
                                    category)
         ELSE /\ DOMAIN kb_output.results \subseteq SearchedCategories
              /\ \A c \in DOMAIN kb_output.results :
                   /\ kb_output.results[c] # << >>
                   /\ \A i \in 1..Len(kb_output.results[c]) :
                        /\ \E k \in 1..Len(KnowledgeBase[c]) :
                             KnowledgeBase[c][k] = kb_output.results[c][i]
                        /\ Matches(c, kb_output.results[c][i])
              /\ IF \A c \in SearchedCategories :
                       \A k \in 1..Len(KnowledgeBase[c]) :
                           ~Matches(c, KnowledgeBase[c][k])
                 THEN kb_output =
                        KbMessage("No matching information found in the knowledge base.", "")
                 ELSE kb_output.kind = "json"

C27_Witness ==
    /\ kpc = "done"
    /\ kb_query = <<"A", "a">>
    /\ category = "None"
    /\ kb_output.kind = "json"
    /\ DOMAIN kb_output.results = {"products", "faqs"}
    /\ Len(kb_output.results["faqs"]) = 1

-----------------------------------------------------------------------------
(* Properties of LipaChatAPI._make_request (checked under SpecApi) *)

\* get, post, put, delete in any letter case
SupportedMethod ==
    http_method \in {"get", "GET", "Get", "post", "POST", "put", "PUT",
                     "delete", "DELETE"}

\* C28: _make_request sends exactly one HTTP request for get, post, put and
\* delete in any letter case and none for any other method, which raises
\* ValueError; it returns the parsed body only for a 2xx status; an error
\* status or a transport error is raised to the caller, never returned;
\* the request is never sent again.
C28_OneRequestNoRetry ==
    mpc # "idle" =>
      /\ requests_sent = IF SupportedMethod THEN 1 ELSE 0
      /\ SupportedMethod => sent.verb # "none"
      /\ ~SupportedMethod => made = MadeRaise("ValueError") /\ sent.verb = "none"
      /\ mpc = "done" => made.kind \in {"return", "raise"}
      /\ made.kind = "return" =>
           /\ came_back.kind = "response"
           /\ came_back.status_code \in 200..299
      /\ (mpc = "done" /\ came_back.kind = "error") => made = MadeRaise("RequestError")
      /\ (mpc = "done" /\ came_back.kind = "response"
            /\ came_back.status_code \notin 200..299) =>
           made = MadeRaise("HTTPStatusError")

C28_Witness ==
    /\ mpc = "done"
    /\ http_method = "DELETE"
    /\ sent.verb = "DELETE"
    /\ requests_sent = 1
    /\ came_back = Response(404, TRUE)
    /\ made = MadeRaise("HTTPStatusError")

-----------------------------------------------------------------------------
(* Properties of the log_requests middleware (checked under SpecMw) *)

\* C29: the middleware returns the downstream response unchanged, answers
\* an exception that escaped downstream with status 500 and detail
\* 'Internal server error', produces exactly one response per request and
\* never raises.
C29_MiddlewarePassesOrAnswers500 ==
    /\ ~mw_raised
    /\ responses = IF mwpc = "done" THEN 1 ELSE 0
    /\ mwpc = "done" =>
         /\ downstream.kind \in {"response", "exception"}
         /\ downstream.kind = "response" =>
              client_response = downstream.response
         /\ downstream.kind = "exception" =>
              /\ client_response.status_code = 500
              /\ client_response.detail = "Internal server error"

C29_Witness ==
    /\ mwpc = "done"
    /\ request.path = "/api/crew/customer-issue"
    /\ downstream = Escaped("RuntimeError")
    /\ client_response = JSONResponse(500, "Internal server error")
    /\ responses = 1

=============================================================================
